---- MODULE Spec2Model ----
(***************************************************************************)
(* Transport and batch-dispatch layer of the Mixpanel node: the helpers of *)
(* utils (timestamps, cleanObject, payload builders, splitIntoBatches),    *)
(* generateInsertId and processBatchWithRetry of transport, and the event, *)
(* profile and group handlers that shape records and put them on the wire. *)
(***************************************************************************)
EXTENDS Integers, Sequences, FiniteSets, TLC

VARIABLES
    fn, args, ret,                      \* utility harness: last call and its result
    nowMs, idCalls,                     \* process clock (Date.now()) and the insert ids issued
    items, batchSize, retryAttempts,    \* processBatchWithRetry: parameters
    batches, batchIdx, attempt,         \* processBatchWithRetry: loop state
    lastError, results, pc,             \* processBatchWithRetry: outcome state
    calls, sleeps, thrown,              \* processBatchWithRetry: observable effects
    hOp, hPc, hShaped,                  \* handler: operation, position, records shaped
    hBatches, hIdx, hResults, hErr,     \* handler: batch loop state and outcome
    hInput, hReplies,                   \* handler: its parameters, and the replies received
    wire,                               \* ingestion requests issued, in order
    tCall, tPc,                         \* transport: the request function called, its position
    tSent, tReply, tOut,                \* transport: requests issued, reply, return or throw
    tThrown,                            \* transport: the error object thrown, if any
    licenseNoticeLogged, warned,        \* node module: the notice flag, notices written
    invocations, ePc                    \* node: the calls of execute, and its position

utilVars == <<fn, args, ret>>
idVars == <<nowMs, idCalls>>
retryVars == <<items, batchSize, retryAttempts, batches, batchIdx, attempt,
               lastError, results, pc, calls, sleeps, thrown>>
handlerVars == <<hOp, hPc, hShaped, hBatches, hIdx, hResults, hErr, hInput, hReplies, wire>>
transportVars == <<tCall, tPc, tSent, tReply, tOut, tThrown>>
execVars == <<licenseNoticeLogged, warned, invocations, ePc>>
vars == <<utilVars, idVars, retryVars, handlerVars, transportVars, execVars>>

(***************************************************************************)
(* Numbers.  Timestamps exceed 32 bits, so a non-negative integer is kept  *)
(* as two limbs: the value of [hi, lo] is hi * 10^6 + lo, 0 <= lo < 10^6.  *)
(***************************************************************************)
Limb == 1000 * 1000

N(h, l) == [hi |-> h, lo |-> l]

NumLt(a, b) == a.hi < b.hi \/ (a.hi = b.hi /\ a.lo < b.lo)

NumGt(a, b) == NumLt(b, a)

\* a * 1000
Times1000(a) == N(a.hi * 1000 + (a.lo \div 1000), (a.lo % 1000) * 1000)

\* Math.floor(a / 1000)
FloorDiv1000(a) == N(a.hi \div 1000, (a.hi % 1000) * 1000 + (a.lo \div 1000))

\* a * 10 + d, one step of a decimal parse
Times10Plus(a, d) == N(a.hi * 10 + ((a.lo * 10 + d) \div Limb), (a.lo * 10 + d) % Limb)

(***************************************************************************)
(* Strings are sequences of one-character strings.                         *)
(***************************************************************************)
DigitChars == <<"0", "1", "2", "3", "4", "5", "6", "7", "8", "9">>

Base36Chars == DigitChars \o <<"a", "b", "c", "d", "e", "f", "g", "h", "i", "j", "k", "l", "m",
                               "n", "o", "p", "q", "r", "s", "t", "u", "v", "w", "x", "y", "z">>

DigitValue(c) == CHOOSE d \in 0..9 : DigitChars[d + 1] = c

RECURSIVE DecimalOf(_)
\* String(k) for a non-negative integer below one limb
DecimalOf(k) == IF k < 10 THEN <<DigitChars[k + 1]>>
                ELSE DecimalOf(k \div 10) \o <<DigitChars[(k % 10) + 1]>>

RECURSIVE ZeroPad(_, _)
ZeroPad(s, width) == IF Len(s) >= width THEN s ELSE ZeroPad(<<"0">> \o s, width)

\* String(n) for a two-limb number
NumToString(n) == IF n.hi = 0 THEN DecimalOf(n.lo)
                  ELSE DecimalOf(n.hi) \o ZeroPad(DecimalOf(n.lo), 6)

RECURSIVE ParseDigits(_, _)
ParseDigits(s, acc) == IF s = <<>> THEN acc
                       ELSE ParseDigits(Tail(s), Times10Plus(acc, DigitValue(Head(s))))

\* parseInt(s, 10) on a string of decimal digits
parseInt(s) == ParseDigits(s, N(0, 0))

\* s.substring(from, to), zero-based, end exclusive, clamped to the length
Substring(s, from, to) ==
    LET hi == IF to > Len(s) THEN Len(s) ELSE to
        lo == IF from > Len(s) THEN Len(s) ELSE from
    IN  IF lo >= hi THEN <<>> ELSE SubSeq(s, lo + 1, hi)

RECURSIVE SplitFrom(_, _, _)
\* s.split(sep): cur is the segment being read
SplitFrom(s, sep, cur) ==
    IF s = <<>> THEN <<cur>>
    ELSE IF Head(s) = sep THEN <<cur>> \o SplitFrom(Tail(s), sep, <<>>)
    ELSE SplitFrom(Tail(s), sep, Append(cur, Head(s)))

Split(s, sep) == SplitFrom(s, sep, <<>>)

RECURSIVE CountChar(_, _)
CountChar(s, c) == IF s = <<>> THEN 0
                   ELSE (IF Head(s) = c THEN 1 ELSE 0) + CountChar(Tail(s), c)

StartsWith(s, p) == Len(s) >= Len(p) /\ SubSeq(s, 1, Len(p)) = p

(***************************************************************************)
(* JSON values (IDataObject members), tagged by kind.                      *)
(***************************************************************************)
Undefined == [kind |-> "undefined", val |-> 0]

Null == [kind |-> "null", val |-> 0]

Str(s) == [kind |-> "string", val |-> s]

Num(n) == [kind |-> "number", val |-> n]

Bool(b) == [kind |-> "boolean", val |-> b]

Arr(s) == [kind |-> "array", val |-> s]

\* an object: a function from its own keys to values
Obj(f) == [kind |-> "object", val |-> f]

EmptyObj == Obj(<<>>)

Keys(o) == DOMAIN o.val

Has(o, k) == k \in Keys(o)

\* o[k], undefined when the key is absent
Get(o, k) == IF Has(o, k) THEN o.val[k] ELSE Undefined

\* { ...a, ...b }: keys of b win
Spread(a, b) == Obj([k \in Keys(a) \cup Keys(b) |-> IF Has(b, k) THEN b.val[k] ELSE a.val[k]])

\* { ...o, [k]: v }
With(o, k, v) == Obj([j \in Keys(o) \cup {k} |-> IF j = k THEN v ELSE o.val[j]])

\* JavaScript truthiness of a value
Truthy(v) ==
    CASE v.kind = "undefined" -> FALSE
      [] v.kind = "null" -> FALSE
      [] v.kind = "string" -> v.val # <<>>
      [] v.kind = "number" -> v.val # N(0, 0)
      [] v.kind = "boolean" -> v.val
      [] OTHER -> TRUE

\* a || b
OrElse(a, b) == IF Truthy(a) THEN a ELSE b

(***************************************************************************)
(* utils: timestamps                                                       *)
(***************************************************************************)
\* the literal 10000000000
TenBillion == N(10000, 0)

\* typeof timestamp === 'string' ? parseInt(timestamp, 10) : timestamp
TimestampValue(timestamp) ==
    IF timestamp.kind = "string" THEN parseInt(timestamp.val) ELSE timestamp.val

toMilliseconds(timestamp) ==
    LET ts == TimestampValue(timestamp)
    IN  IF NumLt(ts, TenBillion) THEN Times1000(ts) ELSE ts

toSeconds(timestamp) ==
    LET ts == TimestampValue(timestamp)
    IN  IF NumGt(ts, TenBillion) THEN FloorDiv1000(ts) ELSE ts

(***************************************************************************)
(* utils: cleanObject                                                      *)
(***************************************************************************)
\* value !== undefined && value !== null && value !== ''
IsKeptValue(value) ==
    /\ value.kind # "undefined"
    /\ value.kind # "null"
    /\ value # Str(<<>>)

RECURSIVE cleanObject(_)
cleanObject(obj) ==
    LET \* typeof value === 'object' && !Array.isArray(value)
        Nested(k) == obj.val[k].kind = "object"
        kept == {k \in Keys(obj) :
                    /\ IsKeptValue(obj.val[k])
                    /\ (Nested(k) => Keys(cleanObject(obj.val[k])) # {})}
    IN  Obj([k \in kept |-> IF Nested(k) THEN cleanObject(obj.val[k]) ELSE obj.val[k]])

(***************************************************************************)
(* utils: splitIntoBatches                                                 *)
(***************************************************************************)
\* items.slice(i, i + size) with a zero-based start
Slice(s, i, j) == Substring(s, i, j)

RECURSIVE SplitLoop(_, _, _)
\* for (let i = 0; i < items.length; i += batchSize) batches.push(items.slice(i, i + batchSize))
SplitLoop(s, size, i) ==
    IF i < Len(s) THEN <<Slice(s, i, i + size)>> \o SplitLoop(s, size, i + size)
    ELSE <<>>

\* mutant: a trailing batch shorter than the batch size is dropped
splitIntoBatches_FullOnly(s, size) == SplitLoop(Substring(s, 0, (Len(s) \div size) * size), size, 0)

splitIntoBatches(s, size) == SplitLoop(s, size, 0)

(***************************************************************************)
(* utils: payload builders                                                 *)
(***************************************************************************)
\* Math.floor(Date.now() / 1000)
NowSeconds(now) == FloorDiv1000(now)

buildEventProperties(token, distinctId, insertId, additionalProperties, options, now) ==
    LET properties == Spread(Obj(("token" :> token) @@ ("distinct_id" :> distinctId)
                                 @@ ("$insert_id" :> insertId)),
                             additionalProperties)
        timed == With(properties, "time",
                      IF Truthy(Get(options, "time"))
                      THEN Num(toSeconds(Get(options, "time")))
                      ELSE Num(NowSeconds(now)))
    IN  IF Truthy(Get(options, "ip")) THEN With(timed, "ip", Get(options, "ip")) ELSE timed

buildProfileUpdate(token, distinctId, operation, properties, options) ==
    LET update == With(Obj(("$token" :> token) @@ ("$distinct_id" :> distinctId)),
                       operation, properties)
        withIp == IF Truthy(Get(options, "ip")) THEN With(update, "$ip", Get(options, "ip"))
                  ELSE update
    IN  IF Truthy(Get(options, "ignoreTime")) THEN With(withIp, "$ignore_time", Bool(TRUE))
        ELSE withIp

buildGroupUpdate(token, groupKey, groupId, operation, properties) ==
    With(Obj(("$token" :> token) @@ ("$group_key" :> groupKey) @@ ("$group_id" :> groupId)),
         operation, properties)

(***************************************************************************)
(* transport: generateInsertId                                             *)
(***************************************************************************)
RECURSIVE Base36Digits(_)
Base36Digits(r) == IF r = <<>> THEN <<>>
                   ELSE <<Base36Chars[Head(r) + 1]>> \o Base36Digits(Tail(r))

\* Math.random().toString(36): r lists the base-36 digits of the fraction, none for 0
RandomToString36(r) == IF r = <<>> THEN <<"0">> ELSE <<"0", ".">> \o Base36Digits(r)

\* mutant: the random component and its separator are left out
generateInsertId_NoRandom(distinctId, timestamp, r) ==
    distinctId \o <<"_">> \o NumToString(timestamp)

generateInsertId(distinctId, timestamp, r) ==
    LET random == Substring(RandomToString36(r), 2, 11)
    IN  distinctId \o <<"_">> \o NumToString(timestamp) \o <<"_">> \o random

(***************************************************************************)
(* transport: processBatchWithRetry                                        *)
(***************************************************************************)
MaxItems == 4

MaxBatchSize == 3

MaxRetryAttempts == 3

RETRY_ATTEMPTS == 3

RETRY_DELAY_MS == 1000

\* the statusCode values a rejected processor call carries; 0 is an error without statusCode
StatusCodes == {0, 429, 500}

RECURSIVE Pow2(_)
\* Math.pow(2, n)
Pow2(n) == IF n = 0 THEN 1 ELSE 2 * Pow2(n - 1)

NoError == [statusCode |-> -1, call |-> 0]

\* mutant: every rejection is taken for a rate limit and retried
IsRateLimitError_AnyError(error) == error.statusCode # -1

\* (error as { statusCode?: number }).statusCode === 429
IsRateLimitError(error) == error.statusCode = 429

\* a backoff that grows by RETRY_DELAY_MS with every attempt
RetryDelay_Linear(n) == RETRY_DELAY_MS * (n + 1)

\* DEFAULTS.RETRY_DELAY_MS * Math.pow(2, attempt)
RetryDelay(n) == RETRY_DELAY_MS * Pow2(n)

RECURSIVE RetrySplitLoop(_, _, _)
\* the batching loop at the head of processBatchWithRetry
RetrySplitLoop(s, size, i) ==
    IF i < Len(s) THEN <<Substring(s, i, i + size)>> \o RetrySplitLoop(s, size, i + size)
    ELSE <<>>

RetryIdle ==
    /\ items = <<>> /\ batchSize = 1 /\ retryAttempts = RETRY_ATTEMPTS
    /\ batches = <<>> /\ batchIdx = 0 /\ attempt = 0
    /\ lastError = NoError /\ results = <<>> /\ pc = "idle"
    /\ calls = <<>> /\ sleeps = <<>> /\ thrown = NoError

\* a call processBatchWithRetry(items, batchSize, processor, retryAttempts) is about to run
RetryInit ==
    /\ items \in {[i \in 1..n |-> i] : n \in 0..MaxItems}
    /\ batchSize \in 1..MaxBatchSize
    /\ retryAttempts \in 0..MaxRetryAttempts
    /\ batches = <<>> /\ batchIdx = 0 /\ attempt = 0
    /\ lastError = NoError /\ results = <<>> /\ pc = "start"
    /\ calls = <<>> /\ sleeps = <<>> /\ thrown = NoError

\* results = [], batches = split of items; the batch loop starts at the first batch
SplitItems ==
    /\ pc = "start"
    /\ batches' = RetrySplitLoop(items, batchSize, 0)
    /\ results' = <<>>
    /\ batchIdx' = 1
    /\ pc' = "batch"
    /\ UNCHANGED <<utilVars, idVars, handlerVars, transportVars, execVars, items, batchSize, retryAttempts, attempt, lastError, calls, sleeps, thrown>>

\* for (const batch of batches): the next batch, or return results after the last one
NextBatch ==
    /\ pc = "batch"
    /\ IF batchIdx <= Len(batches)
       THEN /\ lastError' = NoError
            /\ attempt' = 0
            /\ pc' = "attempt"
       ELSE /\ pc' = "returned"
            /\ UNCHANGED <<lastError, attempt>>
    /\ UNCHANGED <<utilVars, idVars, handlerVars, transportVars, execVars, items, batchSize, retryAttempts, batches, batchIdx, results,
                   calls, sleeps, thrown>>

\* attempt < retryAttempts: call processor(batch) and await it; otherwise leave the loop
InvokeProcessor ==
    /\ pc = "attempt"
    /\ IF attempt < retryAttempts
       THEN /\ calls' = Append(calls, [batch |-> batchIdx, attempt |-> attempt,
                                       body |-> batches[batchIdx], outcome |-> -1])
            /\ pc' = "await"
       ELSE /\ pc' = "check"
            /\ UNCHANGED calls
    /\ UNCHANGED <<utilVars, idVars, handlerVars, transportVars, execVars, items, batchSize, retryAttempts, batches, batchIdx, attempt,
                   lastError, results, sleeps, thrown>>

\* the processor's promise resolves: results.push(result); lastError = null; break
ProcessorResolves ==
    /\ pc = "await"
    /\ calls' = [calls EXCEPT ![Len(calls)].outcome = 200]
    /\ results' = Append(results, [batch |-> batchIdx, call |-> Len(calls)])
    /\ lastError' = NoError
    /\ pc' = "check"
    /\ UNCHANGED <<utilVars, idVars, handlerVars, transportVars, execVars, items, batchSize, retryAttempts, batches, batchIdx, attempt,
                   sleeps, thrown>>

\* the processor's promise rejects: a rate-limit error starts the backoff timer,
\* any other error is rethrown
ProcessorRejects ==
    /\ pc = "await"
    /\ \E code \in StatusCodes :
        LET error == [statusCode |-> code, call |-> Len(calls)]
        IN  /\ calls' = [calls EXCEPT ![Len(calls)].outcome = code]
            /\ lastError' = error
            /\ IF IsRateLimitError(error)
               THEN /\ sleeps' = Append(sleeps, [delay |-> RetryDelay(attempt),
                                                 afterCall |-> Len(calls)])
                    /\ pc' = "sleep"
                    /\ UNCHANGED thrown
               ELSE /\ thrown' = error
                    /\ pc' = "thrown"
                    /\ UNCHANGED sleeps
    /\ UNCHANGED <<utilVars, idVars, handlerVars, transportVars, execVars, items, batchSize, retryAttempts, batches, batchIdx, attempt, results>>

\* the backoff timer fires: attempt++
BackoffElapsed ==
    /\ pc = "sleep"
    /\ attempt' = attempt + 1
    /\ pc' = "attempt"
    /\ UNCHANGED <<utilVars, idVars, handlerVars, transportVars, execVars, items, batchSize, retryAttempts, batches, batchIdx, lastError,
                   results, calls, sleeps, thrown>>

\* the end of an attempt loop that goes on to the next batch whatever lastError holds
CheckLastError_Continues ==
    /\ pc = "check"
    /\ batchIdx' = batchIdx + 1
    /\ pc' = "batch"
    /\ UNCHANGED <<utilVars, idVars, handlerVars, transportVars, execVars, items, batchSize, retryAttempts, batches, attempt, lastError,
                   results, calls, sleeps, thrown>>

\* if (lastError) throw lastError; otherwise on to the next batch
CheckLastError ==
    /\ pc = "check"
    /\ IF lastError # NoError
       THEN /\ thrown' = lastError
            /\ pc' = "thrown"
            /\ UNCHANGED batchIdx
       ELSE /\ batchIdx' = batchIdx + 1
            /\ pc' = "batch"
            /\ UNCHANGED thrown
    /\ UNCHANGED <<utilVars, idVars, handlerVars, transportVars, execVars, items, batchSize, retryAttempts, batches, attempt, lastError,
                   results, calls, sleeps>>

RetryNext ==
    \/ SplitItems
    \/ NextBatch
    \/ InvokeProcessor
    \/ ProcessorResolves
    \/ ProcessorRejects
    \/ BackoffElapsed
    \/ CheckLastError

(***************************************************************************)
(* Insert ids issued by one process: Date.now() never runs backwards, and  *)
(* Math.random() may yield any value, the same one twice included.         *)
(***************************************************************************)
MaxTicks == 2

MaxIdCalls == 2

\* Date.now() when the process is first observed, in milliseconds
ClockStart == N(1700000, 999998)

DistinctIds == {<<"u", "1">>, <<"u", "_", "1">>, <<"_">>, <<"a", "_", "b", "_">>}

\* base-36 digits of the fraction Math.random() returns
RandomDraws == {<<>>, <<0>>, <<10, 35>>, <<1, 2, 3, 4, 5, 6, 7, 8, 9, 10, 11>>}

\* n + 1
Succ(n) == IF n.lo + 1 = Limb THEN N(n.hi + 1, 0) ELSE N(n.hi, n.lo + 1)

RECURSIVE Later(_, _)
Later(n, k) == IF k = 0 THEN n ELSE Later(Succ(n), k - 1)

IdIdle == nowMs = ClockStart /\ idCalls = <<>>

IdInit == nowMs = ClockStart /\ idCalls = <<>>

\* a millisecond passes
ClockTick ==
    /\ NumLt(nowMs, Later(ClockStart, MaxTicks))
    /\ nowMs' = Succ(nowMs)
    /\ UNCHANGED <<idCalls, utilVars, retryVars, handlerVars, transportVars, execVars>>

\* one call generateInsertId(distinctId)
GenerateInsertId ==
    /\ Len(idCalls) < MaxIdCalls
    /\ \E distinctId \in DistinctIds, r \in RandomDraws :
        idCalls' = Append(idCalls, [distinctId |-> distinctId, now |-> nowMs, random |-> r,
                                    id |-> generateInsertId(distinctId, nowMs, r)])
    /\ UNCHANGED <<nowMs, utilVars, retryVars, handlerVars, transportVars, execVars>>

IdNext == ClockTick \/ GenerateInsertId

(***************************************************************************)
(* Calls of the pure helpers of utils.                                     *)
(***************************************************************************)
TimestampNumbers ==
    {N(h, l) : h \in {0, 1700, 9999, 10000, 10001, 1700000}, l \in {0, 1, 999, 1000, 999999}}

\* numeric timestamps and their decimal strings
TimestampInputs ==
    {Num(n) : n \in TimestampNumbers} \cup {Str(NumToString(n)) : n \in TimestampNumbers}

ObjectsOver(keys, values) == {Obj(f) : f \in UNION {[D -> values] : D \in SUBSET keys}}

LeafValues ==
    {Undefined, Null, Str(<<>>), Str(<<"x">>), Num(N(0, 0)), Bool(FALSE), Arr(<<>>),
     Arr(<<Null, Obj("h" :> Undefined)>>)}

InnerObjects == ObjectsOver({"h", "i"}, LeafValues)

MiddleObjects == {Obj("g" :> o) : o \in InnerObjects}

ObjectInputs == ObjectsOver({"a", "g"}, LeafValues \cup InnerObjects \cup MiddleObjects)

UtilIdle == fn = "none" /\ args = <<>> /\ ret = <<>>

UtilInit == fn = "none" /\ args = <<>> /\ ret = <<>>

CallToMilliseconds ==
    /\ fn = "none"
    /\ UNCHANGED <<idVars, retryVars, handlerVars, transportVars, execVars>>
    /\ \E timestamp \in TimestampInputs :
        fn' = "toMilliseconds" /\ args' = <<timestamp>> /\ ret' = toMilliseconds(timestamp)

CallToSeconds ==
    /\ fn = "none"
    /\ UNCHANGED <<idVars, retryVars, handlerVars, transportVars, execVars>>
    /\ \E timestamp \in TimestampInputs :
        fn' = "toSeconds" /\ args' = <<timestamp>> /\ ret' = toSeconds(timestamp)

CallCleanObject ==
    /\ fn = "none"
    /\ UNCHANGED <<idVars, retryVars, handlerVars, transportVars, execVars>>
    /\ \E obj \in ObjectInputs :
        fn' = "cleanObject" /\ args' = <<obj>> /\ ret' = cleanObject(obj)

CallSplitIntoBatches ==
    /\ fn = "none"
    /\ UNCHANGED <<idVars, retryVars, handlerVars, transportVars, execVars>>
    /\ \E n \in 0..MaxItems, size \in 1..MaxBatchSize :
        /\ fn' = "splitIntoBatches"
        /\ args' = <<[i \in 1..n |-> i], size>>
        /\ ret' = splitIntoBatches([i \in 1..n |-> i], size)

\* a batch size above the ingestion ceiling
BATCH_SIZE_Oversized == 2000 + 1

(***************************************************************************)
(* Event, profile and group handlers: validate and shape the caller's      *)
(* parameters, then post the records to the ingestion API.                 *)
(***************************************************************************)
BATCH_SIZE == 2000

MaxEvents == 2

\* ENDPOINTS
TRACK == "/track"

IMPORT == "/import"

ENGAGE == "/engage"

GROUPS == "/groups"

\* PROFILE_OPERATIONS
OperationKeywords ==
    {"$set", "$set_once", "$add", "$append", "$union", "$remove", "$unset", "$delete"}

\* results of a step that may throw
Ok(v) == [ok |-> TRUE, value |-> v, message |-> ""]

Err(m) == [ok |-> FALSE, value |-> Undefined, message |-> m]

\* A JSON text is kept as the value it denotes; Malformed is a text JSON.parse rejects.
Json(v) == [kind |-> "json", val |-> v]

Malformed == [kind |-> "json", val |-> [kind |-> "syntax-error", val |-> 0]]

\* typeof input === 'string' ? JSON.parse(input) : input
parseJsonInput(input) ==
    IF input.kind = "json"
    THEN IF input = Malformed THEN Err("Invalid JSON format") ELSE Ok(input.val)
    ELSE Ok(input)

\* credentials.projectToken
Token == Str(<<"t", "k">>)

\* trackEvent up to its request: the event posted to /track
ShapeTrackEvent(token, eventName, distinctId, propertiesInput, options, now, r) ==
    LET parsed == parseJsonInput(propertiesInput)
        insertId == OrElse(Get(options, "insertId"),
                           Str(generateInsertId(distinctId.val, now, r)))
        properties == buildEventProperties(token, distinctId, insertId, parsed.value,
                                           Obj(("time" :> Get(options, "time"))
                                               @@ ("ip" :> Get(options, "ip"))),
                                           now)
    IN  IF ~parsed.ok THEN Err(parsed.message)
        ELSE Ok([event |-> eventName, properties |-> cleanObject(properties),
                 token |-> token, distinctId |-> distinctId, insertId |-> insertId])

\* the body of eventsData.map(...) in trackBatchEvents
ShapeBatchEvent(token, eventData, now, r) ==
    LET distinctId == OrElse(Get(eventData, "distinct_id"), Get(eventData, "distinctId"))
        eventName == OrElse(Get(eventData, "event"), Get(eventData, "eventName"))
        insertId == OrElse(Get(eventData, "$insert_id"),
                           Str(generateInsertId(distinctId.val, now, r)))
        existingProperties == OrElse(Get(eventData, "properties"), EmptyObj)
        time == IF Truthy(Get(eventData, "time")) THEN Num(toSeconds(Get(eventData, "time")))
                ELSE Num(NowSeconds(now))
        properties == Spread(Obj(("token" :> token) @@ ("distinct_id" :> distinctId)
                                 @@ ("$insert_id" :> insertId) @@ ("time" :> time)),
                             existingProperties)
    IN  IF ~Truthy(distinctId) THEN Err("Each event must have a distinct_id")
        ELSE IF ~Truthy(eventName) THEN Err("Each event must have an event name")
        ELSE Ok([event |-> eventName, properties |-> cleanObject(properties),
                 token |-> token, distinctId |-> distinctId, insertId |-> insertId])

\* the body of eventsData.map(...) in importEvents
ShapeImportEvent(token, eventData, now, r) ==
    LET distinctId == OrElse(Get(eventData, "distinct_id"), Get(eventData, "distinctId"))
        eventName == OrElse(Get(eventData, "event"), Get(eventData, "eventName"))
        time == Get(eventData, "time")
        insertId == OrElse(Get(eventData, "$insert_id"),
                           Str(generateInsertId(distinctId.val, now, r)))
        existingProperties == OrElse(Get(eventData, "properties"), EmptyObj)
        properties == Spread(Obj(("token" :> token) @@ ("distinct_id" :> distinctId)
                                 @@ ("$insert_id" :> insertId)
                                 @@ ("time" :> Num(toSeconds(time)))),
                             existingProperties)
    IN  IF ~Truthy(distinctId) THEN Err("Each event must have a distinct_id")
        ELSE IF ~Truthy(eventName) THEN Err("Each event must have an event name")
        ELSE IF ~Truthy(time) THEN Err("Each imported event must have a time field")
        ELSE Ok([event |-> eventName, properties |-> cleanObject(properties),
                 token |-> token, distinctId |-> distinctId, insertId |-> insertId])

ShapeOne(op, token, eventData, now, r) ==
    IF op = "import" THEN ShapeImportEvent(token, eventData, now, r)
    ELSE ShapeBatchEvent(token, eventData, now, r)

\* the draw Math.random() yields for the i-th event
DrawAt(draws, i) == IF i \in DOMAIN draws THEN draws[i] ELSE <<>>

\* eventsData.map(...): the shaped events, or the error of the first event that throws
ShapeFrom(op, token, eventsData, now, draws) ==
    LET each == [i \in 1..Len(eventsData) |->
                    ShapeOne(op, token, eventsData[i], now, DrawAt(draws, i))]
        failing == {i \in 1..Len(eventsData) : ~each[i].ok}
    IN  IF failing # {}
        THEN each[CHOOSE i \in failing : \A j \in failing : i <= j]
        ELSE Ok([i \in 1..Len(eventsData) |-> each[i].value])

\* trackBatchEvents and importEvents up to the batch loop
ShapeEvents(op, token, eventsInput, now, draws) ==
    LET parsed == parseJsonInput(eventsInput)
    IN  IF ~parsed.ok THEN Err(parsed.message)
        ELSE IF parsed.value.kind # "array" THEN Err("Events must be an array")
        ELSE ShapeFrom(op, token, parsed.value.val, now, draws)

\* the record as it is posted: { event, properties }
WireEvent(e) == [event |-> e.event, properties |-> e.properties]

WireEvents(es) == [i \in 1..Len(es) |-> WireEvent(es[i])]

\* the switch of executeProfileOperations: the operation keyword and its payload
ProfileOperation(operation, propertiesInput, propertyName, valuesInput) ==
    LET properties == parseJsonInput(propertiesInput)
        values == parseJsonInput(valuesInput)
        Named(keyword) == IF ~values.ok THEN Err(values.message)
                          ELSE Ok([keyword |-> keyword,
                                   properties |-> Obj(propertyName :> values.value)])
        Plain(keyword) == IF ~properties.ok THEN Err(properties.message)
                          ELSE Ok([keyword |-> keyword, properties |-> properties.value])
    IN  CASE operation = "set" -> Plain("$set")
          [] operation = "setOnce" -> Plain("$set_once")
          [] operation = "add" -> Plain("$add")
          [] operation = "append" -> Named("$append")
          [] operation = "union" -> Named("$union")
          [] operation = "remove" -> Named("$remove")
          [] operation = "unset" ->
                IF ~properties.ok THEN Err(properties.message)
                ELSE IF properties.value.kind # "array"
                THEN Err("Property names must be an array")
                ELSE Ok([keyword |-> "$unset", properties |-> properties.value])
          [] operation = "delete" -> Ok([keyword |-> "$delete", properties |-> EmptyObj])
          [] OTHER -> Err("Unknown operation")

\* executeProfileOperations up to its request: the update posted to /engage
ShapeProfileUpdate(token, operation, distinctId, propertiesInput, propertyName, valuesInput, options) ==
    LET chosen == ProfileOperation(operation, propertiesInput, propertyName, valuesInput)
    IN  IF ~chosen.ok THEN chosen
        ELSE Ok(cleanObject(buildProfileUpdate(token, distinctId, chosen.value.keyword,
                                               chosen.value.properties,
                                               Obj(("ip" :> Get(options, "ip"))
                                                   @@ ("ignoreTime" :>
                                                       Get(options, "ignoreTime"))))))

\* the switch of executeGroupOperations
GroupOperation(operation, propertiesInput) ==
    LET properties == parseJsonInput(propertiesInput)
        Plain(keyword) == IF ~properties.ok THEN Err(properties.message)
                          ELSE Ok([keyword |-> keyword, properties |-> properties.value])
    IN  CASE operation = "set" -> Plain("$set")
          [] operation = "setOnce" -> Plain("$set_once")
          [] operation = "delete" -> Ok([keyword |-> "$delete", properties |-> EmptyObj])
          [] OTHER -> Err("Unknown operation")

\* executeGroupOperations up to its request: the update posted to /groups
ShapeGroupUpdate(token, operation, groupKey, groupId, propertiesInput) ==
    LET chosen == GroupOperation(operation, propertiesInput)
    IN  IF ~chosen.ok THEN chosen
        ELSE Ok(cleanObject(buildGroupUpdate(token, groupKey, groupId, chosen.value.keyword,
                                             chosen.value.properties)))

(***************************************************************************)
(* transport: mixpanelIngestionApiRequest, from the response on            *)
(***************************************************************************)
FailureStatusMessage ==
    "Mixpanel API returned failure status. Check your data format and credentials."

\* the ingestion response handling that takes 0 for a success
IngestionResult_ZeroSucceeds(response) ==
    IF response.kind \in {"object", "array", "null"} THEN Ok(response)
    ELSE IF response \in {Num(N(0, 1)), Str(<<"1">>), Num(N(0, 0)), Str(<<"0">>)}
    THEN Ok(Obj("success" :> Bool(TRUE)))
    ELSE Ok(Obj(("success" :> Bool(TRUE)) @@ ("response" :> response)))

\* what the call returns (Ok) or throws (Err, a NodeApiError) for a response body
IngestionResult(response) ==
    IF response = Num(N(0, 1)) \/ response = Str(<<"1">>)
    THEN Ok(Obj("success" :> Bool(TRUE)))
    ELSE IF response.kind \in {"object", "array", "null"}
    THEN Ok(response)
    ELSE IF response = Num(N(0, 0)) \/ response = Str(<<"0">>)
    THEN Err(FailureStatusMessage)
    ELSE Ok(Obj(("success" :> Bool(TRUE)) @@ ("response" :> response)))

\* bodies the service may answer a successful HTTP exchange with
ResponseBodies ==
    {Num(N(0, 1)), Str(<<"1">>), Num(N(0, 0)), Str(<<"0">>),
     Obj("error" :> Str(<<"e">>)), Str(<<"o", "k">>), Num(N(0, 2))}

(***************************************************************************)
(* Inputs of the handlers                                                  *)
(***************************************************************************)
UserId == Str(<<"u", "_", "1">>)

EventName == Str(<<"P">>)

\* property maps a caller may supply, the synthesized keys among them
PropertyMaps ==
    {EmptyObj,
     Obj("price" :> Num(N(0, 9))),
     Obj("token" :> Str(<<"x">>)),
     Obj("token" :> Null),
     Obj("distinct_id" :> Str(<<"v">>)),
     Obj("distinct_id" :> Str(<<>>)),
     Obj("$insert_id" :> Str(<<"i">>)),
     Obj("$insert_id" :> Null),
     Obj("time" :> Num(N(0, 5))),
     Obj("time" :> Null),
     Obj(("token" :> Str(<<"x">>)) @@ ("time" :> Str(<<>>)) @@ ("price" :> Num(N(0, 9))))}

TrackOptions ==
    ObjectsOver({"insertId"}, {Str(<<"k">>)})
    \cup {Spread(a, b) : a \in ObjectsOver({"insertId"}, {Str(<<"k">>)}),
                         b \in ObjectsOver({"time", "ip"},
                                           {Num(N(1700, 0)), Num(N(1700000, 0)),
                                            Str(<<"1">>)})}

\* elements of the events parameter of trackBatch and import
EventDataInputs ==
    {Obj(("event" :> EventName) @@ ("distinct_id" :> UserId)),
     Obj(("eventName" :> EventName) @@ ("distinctId" :> UserId) @@ ("time" :> Num(N(1700, 0)))),
     Obj(("event" :> EventName) @@ ("distinct_id" :> UserId) @@ ("time" :> Num(N(1700000, 1)))
         @@ ("$insert_id" :> Str(<<"k">>)) @@ ("properties" :> Obj("price" :> Num(N(0, 9))))),
     Obj(("event" :> EventName) @@ ("time" :> Num(N(1700, 0)))),
     Obj(("distinct_id" :> UserId) @@ ("event" :> Str(<<>>)) @@ ("time" :> Num(N(1700, 0)))),
     Obj(("event" :> EventName) @@ ("distinct_id" :> UserId) @@ ("time" :> Num(N(0, 0))))}
    \cup {Obj(("event" :> EventName) @@ ("distinct_id" :> UserId) @@ ("time" :> Num(N(1700, 0)))
              @@ ("properties" :> p)) : p \in PropertyMaps \ {EmptyObj}}

\* an event that needs no random draw
PlainEvent ==
    Obj(("event" :> EventName) @@ ("distinct_id" :> UserId) @@ ("time" :> Num(N(1700, 0)))
        @@ ("$insert_id" :> Str(<<"k">>)))

\* short lists of every kind of element, and lists around the batch size
EventLists ==
    UNION {[1..n -> EventDataInputs] : n \in 0..MaxEvents}
    \cup {[i \in 1..n |-> With(PlainEvent, "time", Num(N(1700, i)))] :
              n \in {BATCH_SIZE, BATCH_SIZE + 1, 2 * BATCH_SIZE + 1}}
    \cup {[i \in 1..(BATCH_SIZE + 1) |-> IF i <= BATCH_SIZE THEN PlainEvent
                                         ELSE Obj("event" :> EventName)]}

\* the events parameter: a JSON text of a list, of something else, or malformed
EventsInputs ==
    {Json(Arr(l)) : l \in EventLists} \cup {Json(Obj("event" :> EventName)), Malformed}

\* base-36 digits Math.random() yields while a handler shapes its events
HandlerDraws == {<<>>, <<10, 35>>}

\* payloads of the profile and group operations
PayloadInputs ==
    {Json(EmptyObj), Json(Obj("name" :> Str(<<"J">>))), Json(Obj("name" :> Null)),
     Json(Obj("n" :> Num(N(0, 0)))), Json(Arr(<<Str(<<"a">>)>>)), Json(Arr(<<>>)),
     Json(Str(<<>>)), Json(Null), Malformed}

ProfileOperationNames ==
    {"set", "setOnce", "add", "append", "union", "remove", "unset", "delete", "merge"}

GroupOperationNames == {"set", "setOnce", "delete", "unset"}

ProfileOptions == ObjectsOver({"ip", "ignoreTime"}, {Str(<<"1">>), Bool(TRUE), Bool(FALSE)})

(***************************************************************************)
(* The handlers as steps between their awaits                              *)
(***************************************************************************)
HandlerIdle ==
    /\ hOp = "none" /\ hPc = "idle" /\ hShaped = <<>> /\ hBatches = <<>> /\ hIdx = 0
    /\ hResults = <<>> /\ hErr = "" /\ wire = <<>> /\ hInput = <<>> /\ hReplies = <<>>

HandlerInit ==
    /\ hOp = "none" /\ hPc = "ready" /\ hShaped = <<>> /\ hBatches = <<>> /\ hIdx = 0
    /\ hResults = <<>> /\ hErr = "" /\ wire = <<>> /\ hInput = <<>> /\ hReplies = <<>>

\* the handler throws before any request
Throws(op, message) ==
    /\ hOp' = op /\ hPc' = "failed" /\ hErr' = message
    /\ UNCHANGED <<hShaped, hBatches, hIdx, hResults, hReplies, wire>>

\* the handler posts all its bodies at once and awaits the first response
Posts_AllAtOnce(op, endpoint, shaped, bodies) ==
    /\ hOp' = op /\ hShaped' = shaped /\ hBatches' = bodies /\ hResults' = <<>>
    /\ IF bodies = <<>>
       THEN hPc' = "done" /\ hIdx' = 0 /\ wire' = wire
       ELSE /\ hPc' = "awaiting" /\ hIdx' = 1
            /\ wire' = wire \o [i \in 1..Len(bodies) |->
                                    [endpoint |-> endpoint, body |-> bodies[i]]]
    /\ UNCHANGED <<hErr, hReplies>>

\* the handler posts its first body to endpoint and awaits the response
Posts(op, endpoint, shaped, bodies) ==
    /\ hOp' = op /\ hShaped' = shaped /\ hBatches' = bodies /\ hResults' = <<>>
    /\ IF bodies = <<>>
       THEN hPc' = "done" /\ hIdx' = 0 /\ wire' = wire
       ELSE /\ hPc' = "awaiting" /\ hIdx' = 1
            /\ wire' = Append(wire, [endpoint |-> endpoint, body |-> bodies[1]])
    /\ UNCHANGED <<hErr, hReplies>>

EndpointOf(op) ==
    CASE op = "import" -> IMPORT
      [] op = "profile" -> ENGAGE
      [] op = "group" -> GROUPS
      [] OTHER -> TRACK

TrackEvent ==
    /\ hPc = "ready"
    /\ \E distinctId \in {UserId, Str(<<>>)}, options \in TrackOptions, r \in HandlerDraws,
          propertiesInput \in {Json(p) : p \in PropertyMaps} \cup {Malformed} :
        LET shaped == ShapeTrackEvent(Token, EventName, distinctId, propertiesInput,
                                      options, nowMs, r)
        IN  /\ hInput' = [eventName |-> EventName, distinctId |-> distinctId,
                           properties |-> propertiesInput]
            /\ IF shaped.ok
               THEN Posts("track", TRACK, <<shaped.value>>, <<WireEvents(<<shaped.value>>)>>)
               ELSE Throws("track", shaped.message)
    /\ UNCHANGED <<utilVars, idVars, retryVars, transportVars, execVars>>

TrackBatchEvents ==
    /\ hPc = "ready"
    /\ \E eventsInput \in EventsInputs, draws \in [1..MaxEvents -> HandlerDraws] :
        LET shaped == ShapeEvents("trackBatch", Token, eventsInput, nowMs, draws)
        IN  /\ hInput' = [events |-> eventsInput]
            /\ IF shaped.ok
               THEN Posts("trackBatch", TRACK, shaped.value,
                          splitIntoBatches(WireEvents(shaped.value), BATCH_SIZE))
               ELSE Throws("trackBatch", shaped.message)
    /\ UNCHANGED <<utilVars, idVars, retryVars, transportVars, execVars>>

ImportEvents ==
    /\ hPc = "ready"
    /\ \E eventsInput \in EventsInputs, draws \in [1..MaxEvents -> HandlerDraws] :
        LET shaped == ShapeEvents("import", Token, eventsInput, nowMs, draws)
        IN  /\ hInput' = [events |-> eventsInput]
            /\ IF shaped.ok
               THEN Posts("import", IMPORT, shaped.value,
                          splitIntoBatches(WireEvents(shaped.value), BATCH_SIZE))
               ELSE Throws("import", shaped.message)
    /\ UNCHANGED <<utilVars, idVars, retryVars, transportVars, execVars>>

ProfileOperations ==
    /\ hPc = "ready"
    /\ \E operation \in ProfileOperationNames, input \in PayloadInputs,
          options \in ProfileOptions :
        LET shaped == ShapeProfileUpdate(Token, operation, UserId, input, "tags", input,
                                         options)
        IN  /\ hInput' = [operation |-> operation, payload |-> input]
            /\ IF shaped.ok
               THEN Posts("profile", ENGAGE,
                          <<[operation |-> operation, update |-> shaped.value]>>,
                          <<<<shaped.value>>>>)
               ELSE Throws("profile", shaped.message)
    /\ UNCHANGED <<utilVars, idVars, retryVars, transportVars, execVars>>

GroupOperations ==
    /\ hPc = "ready"
    /\ \E operation \in GroupOperationNames, input \in PayloadInputs :
        LET shaped == ShapeGroupUpdate(Token, operation, Str(<<"c">>), Str(<<"a">>), input)
        IN  /\ hInput' = [operation |-> operation, payload |-> input]
            /\ IF shaped.ok
               THEN Posts("group", GROUPS,
                          <<[operation |-> operation, update |-> shaped.value]>>,
                          <<<<shaped.value>>>>)
               ELSE Throws("group", shaped.message)
    /\ UNCHANGED <<utilVars, idVars, retryVars, transportVars, execVars>>

\* the HTTP exchange succeeds with some body
IngestionResponds ==
    /\ hPc = "awaiting"
    /\ \E response \in ResponseBodies :
        LET result == IngestionResult(response)
        IN  /\ hReplies' = Append(hReplies, [status |-> 200, body |-> response])
            /\ IF ~result.ok
               THEN /\ hPc' = "failed" /\ hErr' = result.message
                    /\ UNCHANGED <<hIdx, hResults, wire>>
               ELSE /\ hResults' = Append(hResults, [batchSize |-> Len(hBatches[hIdx]),
                                                     response |-> result.value])
                    /\ hErr' = hErr
                    /\ IF hIdx < Len(hBatches)
                       THEN /\ hIdx' = hIdx + 1
                            /\ wire' = Append(wire, [endpoint |-> EndpointOf(hOp),
                                                     body |-> hBatches[hIdx + 1]])
                            /\ hPc' = "awaiting"
                       ELSE hPc' = "done" /\ hIdx' = hIdx /\ wire' = wire
    /\ UNCHANGED <<hOp, hShaped, hBatches, hInput, utilVars, idVars, retryVars, transportVars, execVars>>

\* the HTTP exchange fails: the error is rethrown as a NodeApiError
IngestionRejects ==
    /\ hPc = "awaiting"
    /\ \E status \in StatusCodes :
        hReplies' = Append(hReplies, [status |-> status, body |-> Undefined])
    /\ hErr' = "Request failed"
    /\ hPc' = "failed"
    /\ UNCHANGED <<hOp, hShaped, hBatches, hIdx, hResults, hInput, wire, utilVars, idVars, retryVars, transportVars, execVars>>

HandlerNext ==
    \/ TrackEvent
    \/ TrackBatchEvents
    \/ ImportEvents
    \/ ProfileOperations
    \/ GroupOperations
    \/ IngestionResponds
    \/ IngestionRejects

(***************************************************************************)
(* utils and handlers as functions of their arguments: the properties of   *)
(* one event, built by buildEventProperties and shaped by the two tracking *)
(* operations                                                              *)
(***************************************************************************)
\* the options argument of buildEventProperties
BuildOptions ==
    ObjectsOver({"time", "ip"}, {Num(N(1700, 0)), Num(N(1700000, 0)), Str(<<"1">>)})

CallBuildEventProperties ==
    /\ fn = "none"
    /\ UNCHANGED <<idVars, retryVars, handlerVars, transportVars, execVars>>
    /\ \E additionalProperties \in PropertyMaps, options \in BuildOptions :
        /\ fn' = "buildEventProperties"
        /\ args' = <<Token, UserId, Str(<<"k">>), additionalProperties, options, nowMs>>
        /\ ret' = buildEventProperties(Token, UserId, Str(<<"k">>), additionalProperties,
                                       options, nowMs)

\* one event shaped by trackEvent and, given as an element of the events parameter,
\* by trackBatchEvents
CallShapeEvent ==
    /\ fn = "none"
    /\ UNCHANGED <<idVars, retryVars, handlerVars, transportVars, execVars>>
    /\ \E properties \in PropertyMaps, time \in {Undefined, Num(N(1700000, 0))},
          insertId \in {Str(<<"k">>)} :
        /\ fn' = "shapeEvent"
        /\ args' = <<Token, EventName, UserId, insertId, time, properties>>
        /\ ret' = [track |-> ShapeTrackEvent(Token, EventName, UserId, Json(properties),
                                             Obj(("insertId" :> insertId)
                                                 @@ ("time" :> time)),
                                             nowMs, <<>>),
                   batch |-> ShapeBatchEvent(Token,
                                             Obj(("event" :> EventName)
                                                 @@ ("distinct_id" :> UserId)
                                                 @@ ("$insert_id" :> insertId)
                                                 @@ ("time" :> time)
                                                 @@ ("properties" :> properties)),
                                             nowMs, <<>>)]

\* wrapResponse(data, metadata): one output record for each element of an array,
\* one record for anything else
wrapResponse(data, metadata) ==
    IF data.kind = "array"
    THEN [i \in 1..Len(data.val) |-> [json |-> Spread(data.val[i], metadata)]]
    ELSE <<[json |-> Spread(data, metadata)]>>

\* exportPeople from the response of its request to its return value
exportPeople(response) ==
    IF Truthy(Get(response, "results")) /\ Get(response, "results").kind = "array"
    THEN LET elements == Get(response, "results").val
             _metadata == Obj(("page" :> Get(response, "page"))
                              @@ ("session_id" :> Get(response, "session_id"))
                              @@ ("total" :> Get(response, "total")))
         IN  wrapResponse(Arr([i \in 1..Len(elements) |->
                                  With(elements[i], "_metadata", _metadata)]), EmptyObj)
    ELSE wrapResponse(response, EmptyObj)

\* getCohortMembers from the response of its request to its return value
getCohortMembers(response) == wrapResponse(response, EmptyObj)

\* responses of the engage and cohort endpoints: pages of profiles, and an error object
PagedResponses ==
    {Obj(("results" :> Arr(profiles)) @@ ("page" :> Num(N(0, page)))
         @@ ("session_id" :> Str(<<"s">>)) @@ ("total" :> Num(N(0, 7)))) :
        profiles \in UNION {[1..n -> {Obj("$distinct_id" :> Str(<<"u">>)),
                                      Obj("$distinct_id" :> Str(<<"v">>))}] : n \in 0..2},
        page \in {0, 1}}
    \cup {Obj("error" :> Str(<<"e">>))}

CallExportPeople ==
    /\ fn = "none"
    /\ UNCHANGED <<idVars, retryVars, handlerVars, transportVars, execVars>>
    /\ \E response \in PagedResponses :
        fn' = "exportPeople" /\ args' = <<response>> /\ ret' = exportPeople(response)

CallGetCohortMembers ==
    /\ fn = "none"
    /\ UNCHANGED <<idVars, retryVars, handlerVars, transportVars, execVars>>
    /\ \E response \in PagedResponses :
        fn' = "getCohortMembers" /\ args' = <<response>> /\ ret' = getCohortMembers(response)

UtilNext ==
    \/ CallToMilliseconds
    \/ CallToSeconds
    \/ CallCleanObject
    \/ CallSplitIntoBatches
    \/ CallBuildEventProperties
    \/ CallShapeEvent
    \/ CallExportPeople
    \/ CallGetCohortMembers

(***************************************************************************)
(* transport: getBaseUrl, the request options and the response handling of *)
(* the four request functions                                              *)
(***************************************************************************)
REQUEST_TIMEOUT_MS == 30000

\* the base URLs by API family and region
urls ==
    [ingestion |-> [us |-> "https://api.mixpanel.com", eu |-> "https://api-eu.mixpanel.com",
                    in |-> "https://api-in.mixpanel.com"],
     query |-> [us |-> "https://mixpanel.com/api", eu |-> "https://eu.mixpanel.com/api",
                in |-> "https://in.mixpanel.com/api"],
     export |-> [us |-> "https://data.mixpanel.com/api/2.0/export",
                 eu |-> "https://data-eu.mixpanel.com/api/2.0/export",
                 in |-> "https://data-in.mixpanel.com/api/2.0/export"]]

\* object[key] of an object literal of strings: an own string, undefined, or what
\* the literal inherits from Object.prototype under that name (some of the names)
PropertyOf(object, key) ==
    IF key \in DOMAIN object THEN [kind |-> "string", val |-> object[key]]
    ELSE IF key \in {"constructor", "toString", "__proto__"}
    THEN [kind |-> IF key = "__proto__" THEN "object" ELSE "function", val |-> key]
    ELSE [kind |-> "undefined", val |-> ""]

getBaseUrl(region, apiType) ==
    LET url == PropertyOf(urls[apiType], region)
    IN  IF url.kind = "undefined" \/ (url.kind = "string" /\ url.val = "")
        THEN Err("Invalid region: " \o region)
        ELSE Ok(url)

\* `${value}` of a credential field
TemplateString(value) ==
    IF value.kind = "string" THEN value.val
    ELSE <<"u", "n", "d", "e", "f", "i", "n", "e", "d">>

\* Buffer.from(text).toString('base64'), kept as the text it encodes
Base64(text) == [base64 |-> text]

\* authString of the query and export requests, for the wrong credentials
ProjectAuthString_ServiceAccount(credentials) ==
    Base64(TemplateString(credentials.serviceAccountSecret) \o <<":">>)

\* authString of the query and export requests
ProjectAuthString(credentials) ==
    Base64(TemplateString(credentials.projectSecret) \o <<":">>)

\* authString of the service-account requests
ServiceAccountAuthString(credentials) ==
    Base64(TemplateString(credentials.serviceAccountUsername) \o <<":">>
           \o TemplateString(credentials.serviceAccountSecret))

\* the service-account precondition, satisfied by either field alone
HasServiceAccount_Either(credentials) ==
    Truthy(credentials.serviceAccountUsername) \/ Truthy(credentials.serviceAccountSecret)

\* the service-account precondition: both fields are present and non-empty
HasServiceAccount(credentials) ==
    Truthy(credentials.serviceAccountUsername) /\ Truthy(credentials.serviceAccountSecret)

\* a uri is kept as the base URL, what replace() removes from it, and the endpoint
IngestionOptions(baseUrl, method, endpoint, body) ==
    [method |-> method, uri |-> [base |-> baseUrl, without |-> "", path |-> endpoint],
     headers |-> ("Content-Type" :> "application/json") @@ ("Accept" :> "text/plain"),
     body |-> body, qs |-> Undefined, json |-> TRUE, timeout |-> REQUEST_TIMEOUT_MS]

\* options of a query request and, with its own authString, of a service-account request
QueryOptions(baseUrl, authString, method, endpoint, body, qs) ==
    LET withBody == method # "GET" /\ Keys(body) # {}
        authorization == "Authorization" :> [scheme |-> "Basic", credentials |-> authString]
    IN  [method |-> method, uri |-> [base |-> baseUrl, without |-> "", path |-> endpoint],
         headers |-> IF withBody
                     THEN authorization @@ ("Accept" :> "application/json")
                          @@ ("Content-Type" :> "application/json")
                     ELSE authorization @@ ("Accept" :> "application/json"),
         body |-> IF withBody THEN body ELSE Undefined,
         qs |-> qs, json |-> TRUE, timeout |-> REQUEST_TIMEOUT_MS]

ExportOptions(baseUrl, authString, endpoint, qs) ==
    [method |-> "GET",
     uri |-> IF endpoint = "" THEN [base |-> baseUrl, without |-> "", path |-> ""]
             ELSE [base |-> baseUrl, without |-> "/export", path |-> endpoint],
     headers |-> ("Authorization" :> [scheme |-> "Basic", credentials |-> authString])
                 @@ ("Accept" :> "application/json"),
     body |-> Undefined, qs |-> qs, json |-> FALSE, timeout |-> REQUEST_TIMEOUT_MS * 2]

\* an export body is a text of line feeds, blanks, the characters a and b, each
\* standing for a complete JSON text, and x, which is no JSON
JsonTexts == ("a" :> Obj("event" :> Str(<<"a">>))) @@ ("b" :> Obj("event" :> Str(<<"b">>)))

\* line.trim()
Trim(line) ==
    IF \A i \in 1..Len(line) : line[i] = " " THEN <<>>
    ELSE LET first == CHOOSE i \in 1..Len(line) :
                          line[i] # " " /\ \A j \in 1..(i - 1) : line[j] = " "
             last == CHOOSE i \in 1..Len(line) :
                         line[i] # " " /\ \A j \in (i + 1)..Len(line) : line[j] = " "
         IN  SubSeq(line, first, last)

\* JSON.parse(line): blanks around the one JSON text are allowed
JSONparse(line) ==
    LET text == Trim(line)
    IN  IF Len(text) = 1 /\ text[1] \in DOMAIN JsonTexts THEN Ok(JsonTexts[text[1]])
        ELSE Err("Unexpected token in JSON")

\* the export response handling that drops the lines it cannot parse
ExportResult_SkipsBadLines(response) ==
    IF response.kind = "string"
    THEN LET lines == SelectSeq(Split(response.val, "\n"), LAMBDA line : JSONparse(line).ok)
         IN  Ok(Arr([i \in 1..Len(lines) |-> JSONparse(lines[i]).value]))
    ELSE IF response.kind = "array" THEN Ok(response)
    ELSE Ok(Arr(<<response>>))

\* what mixpanelExportApiRequest returns (Ok) or throws (Err) for a response
ExportResult(response) ==
    IF response.kind = "string"
    THEN LET lines == SelectSeq(Split(response.val, "\n"), LAMBDA line : Trim(line) # <<>>)
             parsed == [i \in 1..Len(lines) |-> JSONparse(lines[i])]
         IN  IF \E i \in 1..Len(lines) : ~parsed[i].ok
             THEN parsed[CHOOSE i \in 1..Len(lines) :
                             ~parsed[i].ok /\ \A j \in 1..(i - 1) : parsed[j].ok]
             ELSE Ok(Arr([i \in 1..Len(lines) |-> parsed[i].value]))
    ELSE IF response.kind = "array" THEN Ok(response)
    ELSE Ok(Arr(<<response>>))


(***************************************************************************)
(* One call of a request function, from its arguments to its outcome       *)
(***************************************************************************)
\* bound on the number of characters of an export response body
MaxBodyLen == 4

\* the credentials getCredentials may resolve to
CredentialSets ==
    [projectToken : {Token}, projectSecret : {Str(<<"p", "s">>)},
     serviceAccountUsername : {Undefined, Str(<<>>), Str(<<"u">>)},
     serviceAccountSecret : {Undefined, Str(<<>>), Str(<<"k", "y">>)},
     region : {"us", "eu", "in", "", "ap", "constructor"}]

\* bodies the service may answer a successful exchange of each request function with
RepliesTo(request) ==
    CASE request = "ingestion" -> ResponseBodies
      [] request = "export" ->
            {Str(s) : s \in UNION {[1..n -> {"\n", " ", "a", "b", "x"}] : n \in 0..MaxBodyLen}}
            \cup {Arr(<<JsonTexts["b"], JsonTexts["a"]>>), Arr(<<>>), JsonTexts["a"]}
      [] OTHER -> {EmptyObj, Arr(<<Obj("id" :> Num(N(0, 7)))>>), Null}

\* the error a rejected HTTP exchange rejects with: it carries the status of the reply
RequestError(status) ==
    [name |-> "StatusCodeError", message |-> "Request failed", statusCode |-> status]

\* new NodeApiError(node, { message: err.message, name: err.name || 'Error' }): the
\* message and the name are all that is handed over from the error caught
NodeApiError(err) ==
    [name |-> "NodeApiError", message |-> err.message,
     errorResponse |-> [message |-> err.message, name |-> err.name]]

TransportIdle ==
    /\ tCall = <<>> /\ tPc = "idle" /\ tSent = <<>> /\ tReply = <<>> /\ tOut = <<>>
    /\ tThrown = <<>>

TransportInit ==
    /\ tCall = <<>> /\ tPc = "ready" /\ tSent = <<>> /\ tReply = <<>> /\ tOut = <<>>
    /\ tThrown = <<>>

\* a request function is entered: it throws before the exchange, or issues its request
Requests(request, credentials, method, endpoint, body, prepared) ==
    /\ tCall' = [request |-> request, credentials |-> credentials, method |-> method,
                 endpoint |-> endpoint, body |-> body]
    /\ IF prepared.ok
       THEN /\ tSent' = Append(tSent, prepared.value) /\ tPc' = "awaiting"
            /\ tOut' = tOut /\ tThrown' = tThrown
       ELSE /\ tSent' = tSent /\ tPc' = "thrown" /\ tOut' = prepared
            /\ tThrown' = [name |-> IF request = "serviceAccount"
                                        /\ ~HasServiceAccount(credentials)
                                     THEN "NodeOperationError" ELSE "Error",
                           message |-> prepared.message]
    /\ UNCHANGED <<tReply, utilVars, idVars, retryVars, handlerVars, execVars>>

mixpanelIngestionApiRequest ==
    /\ tPc = "ready"
    /\ \E credentials \in CredentialSets, endpoint \in {TRACK, ENGAGE},
          body \in {Arr(<<PlainEvent>>)} :
        LET baseUrl == getBaseUrl(credentials.region, "ingestion")
        IN  Requests("ingestion", credentials, "POST", endpoint, body,
                     IF baseUrl.ok
                     THEN Ok(IngestionOptions(baseUrl.value, "POST", endpoint, body))
                     ELSE baseUrl)

mixpanelQueryApiRequest ==
    /\ tPc = "ready"
    /\ \E credentials \in CredentialSets, method \in {"GET", "POST"},
          body \in {EmptyObj, Obj("name" :> Str(<<"n">>))} :
        LET baseUrl == getBaseUrl(credentials.region, "query")
        IN  Requests("query", credentials, method, "/2.0/jql", body,
                     IF baseUrl.ok
                     THEN Ok(QueryOptions(baseUrl.value, ProjectAuthString(credentials),
                                          method, "/2.0/jql", body, EmptyObj))
                     ELSE baseUrl)

mixpanelExportApiRequest ==
    /\ tPc = "ready"
    /\ \E credentials \in CredentialSets, endpoint \in {"", "/2.0/engage"} :
        LET baseUrl == getBaseUrl(credentials.region, "export")
        IN  Requests("export", credentials, "GET", endpoint, Undefined,
                     IF baseUrl.ok
                     THEN Ok(ExportOptions(baseUrl.value, ProjectAuthString(credentials),
                                           endpoint, EmptyObj))
                     ELSE baseUrl)

mixpanelServiceAccountApiRequest ==
    /\ tPc = "ready"
    /\ \E credentials \in CredentialSets, method \in {"GET", "POST"},
          body \in {EmptyObj, Obj("name" :> Str(<<"n">>))},
          endpoint \in {"/2.0/lookup-tables", "/2.0/cohorts/list"} :
        LET baseUrl == getBaseUrl(credentials.region, "query")
        IN  Requests("serviceAccount", credentials, method, endpoint, body,
                     IF ~HasServiceAccount(credentials)
                     THEN Err("Service account credentials are required for this operation. "
                              \o "Please configure them in your Mixpanel credentials.")
                     ELSE IF baseUrl.ok
                     THEN Ok(QueryOptions(baseUrl.value, ServiceAccountAuthString(credentials),
                                          method, endpoint, body, EmptyObj))
                     ELSE baseUrl)

\* the HTTP exchange succeeds with some body
RequestResolves ==
    /\ tPc = "awaiting"
    /\ \E response \in RepliesTo(tCall.request) :
        LET result == CASE tCall.request = "ingestion" -> IngestionResult(response)
                        [] tCall.request = "export" -> ExportResult(response)
                        [] OTHER -> Ok(response)
        IN  /\ tReply' = [status |-> 200, body |-> response]
            /\ tOut' = result
            /\ tPc' = IF result.ok THEN "returned" ELSE "thrown"
            /\ tThrown' = IF result.ok THEN tThrown
                          ELSE NodeApiError([name |-> IF tCall.request = "ingestion"
                                                      THEN "NodeOperationError"
                                                      ELSE "SyntaxError",
                                             message |-> result.message])
    /\ UNCHANGED <<tCall, tSent, utilVars, idVars, retryVars, handlerVars, execVars>>

\* the HTTP exchange fails: the error is rethrown as a NodeApiError
RequestRejects ==
    /\ tPc = "awaiting"
    /\ \E status \in StatusCodes :
        /\ tReply' = [status |-> status, body |-> Undefined]
        /\ tThrown' = NodeApiError(RequestError(status))
    /\ tOut' = Err(RequestError(0).message)
    /\ tPc' = "thrown"
    /\ UNCHANGED <<tCall, tSent, utilVars, idVars, retryVars, handlerVars, execVars>>

TransportNext ==
    \/ mixpanelIngestionApiRequest
    \/ mixpanelQueryApiRequest
    \/ mixpanelExportApiRequest
    \/ mixpanelServiceAccountApiRequest
    \/ RequestResolves
    \/ RequestRejects

(***************************************************************************)
(* The node: Mixpanel.execute and the module-level licensing flag          *)
(***************************************************************************)
MaxInvocations == 2       \* calls of execute made on one loaded module
MaxInputItems == 2        \* input items of one call

\* what a handler returns for one item: one record, or several
ItemResults ==
    {<<[json |-> Obj("id" :> Num(N(0, 1))), pairedItem |-> Undefined]>>,
     <<[json |-> Obj("id" :> Num(N(0, 1))), pairedItem |-> Undefined],
       [json |-> Obj("id" :> Num(N(0, 2))), pairedItem |-> Undefined]>>}

\* if (!licenseNoticeLogged) { console.warn(LICENSING_NOTICE); ... }: the notices written
\* once the head of execute has run
NoticesAfter_EveryCall(logged, count) == count + 1

NoticesAfter(logged, count) == IF ~logged THEN count + 1 ELSE count

\* the catch block of the item loop, for an invocation whose handler threw at item i:
\* with continueOnFail one error record is pushed and the loop continues, else the
\* error leaves execute
Caught_Swallows(invocation, message) ==
    LET i == invocation.i
        after == [invocation EXCEPT !.handled = Append(@, [item |-> i, ok |-> FALSE])]
    IN  [after EXCEPT !.i = i + 1,
                      !.status = IF i + 1 = after.length THEN "returned" ELSE "running"]

Caught(invocation, message) ==
    LET i == invocation.i
        after == [invocation EXCEPT !.handled = Append(@, [item |-> i, ok |-> FALSE])]
    IN  IF after.continueOnFail
        THEN [after EXCEPT !.returnData = Append(@, [json |-> Obj("error" :> message),
                                                     pairedItem |-> [item |-> i]]),
                           !.i = i + 1,
                           !.status = IF i + 1 = after.length THEN "returned" ELSE "running"]
        ELSE [after EXCEPT !.status = "thrown", !.message = message]

\* the module has been loaded and no call of execute is under way
ExecIdle == licenseNoticeLogged = FALSE /\ warned = 0 /\ invocations = <<>> /\ ePc = "idle"

ExecInit == licenseNoticeLogged = FALSE /\ warned = 0 /\ invocations = <<>> /\ ePc = "ready"

\* execute is entered: the notice, then the input items; no item means an immediate return
Execute ==
    /\ ePc = "ready"
    /\ Len(invocations) < MaxInvocations
    /\ \E length \in 0..MaxInputItems, continueOnFail \in BOOLEAN :
        /\ invocations' = Append(invocations,
                [flagOnEntry |-> licenseNoticeLogged, length |-> length,
                 continueOnFail |-> continueOnFail, i |-> 0, handled |-> <<>>,
                 returnData |-> <<>>, message |-> "",
                 status |-> IF length = 0 THEN "returned" ELSE "running"])
        /\ ePc' = IF length = 0 THEN "ready" ELSE "handling"
    /\ warned' = NoticesAfter(licenseNoticeLogged, warned)
    /\ licenseNoticeLogged' = TRUE
    /\ UNCHANGED <<utilVars, idVars, retryVars, handlerVars, transportVars>>

\* the handler of item i returns: returnData.push(...result)
ItemResolves ==
    /\ ePc = "handling"
    /\ \E result \in ItemResults :
        LET invocation == invocations[Len(invocations)]
            i == invocation.i
            after == [invocation EXCEPT
                         !.handled = Append(@, [item |-> i, ok |-> TRUE]),
                         !.returnData = @ \o result,
                         !.i = i + 1,
                         !.status = IF i + 1 = invocation.length THEN "returned"
                                    ELSE "running"]
        IN  /\ invocations' = [invocations EXCEPT ![Len(invocations)] = after]
            /\ ePc' = IF after.status = "running" THEN "handling" ELSE "ready"
    /\ UNCHANGED <<licenseNoticeLogged, warned,
                   utilVars, idVars, retryVars, handlerVars, transportVars>>

\* the handler of item i throws
ItemRejects ==
    /\ ePc = "handling"
    /\ \E message \in {RequestError(0).message} :
        LET after == Caught(invocations[Len(invocations)], message)
        IN  /\ invocations' = [invocations EXCEPT ![Len(invocations)] = after]
            /\ ePc' = IF after.status = "running" THEN "handling" ELSE "ready"
    /\ UNCHANGED <<licenseNoticeLogged, warned,
                   utilVars, idVars, retryVars, handlerVars, transportVars>>

ExecNext == Execute \/ ItemResolves \/ ItemRejects

(***************************************************************************)
(* Specifications                                                          *)
(***************************************************************************)
RetrySpecInit == RetryInit /\ UtilIdle /\ IdIdle /\ HandlerIdle /\ TransportIdle /\ ExecIdle

\* one call of processBatchWithRetry, from its arguments to its return or throw
SpecRetry == RetrySpecInit /\ [][RetryNext]_vars

IdSpecInit == IdInit /\ UtilIdle /\ RetryIdle /\ HandlerIdle /\ TransportIdle /\ ExecIdle

\* the insert ids one process generates
SpecInsertId == IdSpecInit /\ [][IdNext]_vars

UtilSpecInit == UtilInit /\ IdIdle /\ RetryIdle /\ HandlerIdle /\ TransportIdle /\ ExecIdle

HandlerSpecInit == HandlerInit /\ UtilIdle /\ IdIdle /\ RetryIdle /\ TransportIdle /\ ExecIdle

\* one run of an event, profile or group handler
SpecHandlers == HandlerSpecInit /\ [][HandlerNext]_vars

\* calls of the pure helpers on enumerated inputs
SpecUtil == UtilSpecInit /\ [][UtilNext]_vars

TransportSpecInit == TransportInit /\ UtilIdle /\ IdIdle /\ RetryIdle /\ HandlerIdle /\ ExecIdle

\* one call of one of the four request functions
SpecTransport == TransportSpecInit /\ [][TransportNext]_vars

DispatchSpecInit ==
    /\ UtilIdle /\ IdIdle /\ TransportIdle /\ ExecIdle
    /\ (RetryInit /\ HandlerIdle) \/ (RetryIdle /\ HandlerInit)

\* one batched operation: a call of processBatchWithRetry, or a run of a handler
SpecDispatch == DispatchSpecInit /\ [][RetryNext \/ HandlerNext]_vars

ExecSpecInit ==
    ExecInit /\ UtilIdle /\ IdIdle /\ RetryIdle /\ HandlerIdle /\ TransportIdle

\* the calls of execute made on one loaded module
SpecExecute == ExecSpecInit /\ [][ExecNext]_vars

(***************************************************************************)
(* Properties of processBatchWithRetry (SpecRetry)                         *)
(***************************************************************************)
RateLimited == 429

SleepDelays == [k \in 1..Len(sleeps) |-> sleeps[k].delay]

CallsOfBatch(b) == {j \in 1..Len(calls) : calls[j].batch = b}

\* C1: with retryAttempts = 3 and a processor that rejects every call with
\* statusCode 429, the call ends with exactly 3 processor calls, exactly the
\* sleeps b and 2b, each followed by a further attempt, and the last error thrown.
C1_PersistentRateLimit ==
    (/\ pc = "thrown"
     /\ retryAttempts = RETRY_ATTEMPTS
     /\ \A j \in 1..Len(calls) : calls[j].outcome = RateLimited)
    => /\ Len(calls) = 3
       /\ SleepDelays = <<RETRY_DELAY_MS, 2 * RETRY_DELAY_MS>>
       /\ \A k \in 1..Len(sleeps) : sleeps[k].afterCall = k /\ k < Len(calls)
       /\ thrown = [statusCode |-> RateLimited, call |-> 3]

\* What the code does in the case of C1: three calls, the last error thrown, and
\* one sleep after every failed attempt, the last attempt included.
C1_SleepAfterEveryAttempt ==
    (/\ pc = "thrown"
     /\ retryAttempts = RETRY_ATTEMPTS
     /\ \A j \in 1..Len(calls) : calls[j].outcome = RateLimited)
    => /\ Len(calls) = 3
       /\ SleepDelays = <<RETRY_DELAY_MS, 2 * RETRY_DELAY_MS, 4 * RETRY_DELAY_MS>>
       /\ thrown = [statusCode |-> RateLimited, call |-> 3]

\* C2: a processor call rejected with an error that is not a rate-limit error is
\* the last call ever made: the error is thrown to the caller, no sleep follows
\* it, and a failure on the first attempt of a batch leaves that batch with
\* exactly one processor call.
C2_FatalErrorRethrown ==
    \A j \in 1..Len(calls) :
        calls[j].outcome \in StatusCodes \ {RateLimited}
        => /\ j = Len(calls)
           /\ pc = "thrown"
           /\ thrown = [statusCode |-> calls[j].outcome, call |-> j]
           /\ \A k \in 1..Len(sleeps) : sleeps[k].afterCall < j
           /\ calls[j].attempt = 0 => Cardinality(CallsOfBatch(calls[j].batch)) = 1

\* C2 witness: the first attempt of a batch was rejected with statusCode 500
C2_Witness ==
    /\ pc = "thrown"
    /\ Len(calls) = 1
    /\ calls[1].outcome = 500
    /\ sleeps = <<>>

\* C2 witness of the general case: a fatal error after a rate-limited attempt
C2_WitnessAfterBackoff ==
    /\ pc = "thrown"
    /\ Len(calls) = 2
    /\ calls[1].outcome = RateLimited
    /\ calls[2].outcome = 0

RECURSIVE Concat(_)
Concat(bs) == IF bs = <<>> THEN <<>> ELSE Head(bs) \o Concat(Tail(bs))

\* ceil(n / m)
CeilDiv(n, m) == (n + m - 1) \div m

\* bs is the split of s into ceil(n/m) chunks, all of size m but possibly the
\* last, none empty, concatenating back to s
ExactSplit(bs, s, m) ==
    /\ Len(bs) = CeilDiv(Len(s), m)
    /\ \A i \in 1..Len(bs) : Len(bs[i]) \in 1..m /\ (i < Len(bs) => Len(bs[i]) = m)
    /\ Concat(bs) = s
    /\ (Len(s) = 0 => bs = <<>>)

\* C3: for n >= 0 records and a positive max m, splitIntoBatches and the split
\* at the head of processBatchWithRetry both return ceil(n/m) batches of size m
\* (the last of size 1..m) whose concatenation is the input; none for n = 0.
C3_SplitIsExact ==
    pc \notin {"idle", "start"}
    => /\ ExactSplit(batches, items, batchSize)
       /\ ExactSplit(splitIntoBatches(items, batchSize), items, batchSize)

\* C3 witness: a split into several batches whose last one is short
C3_Witness ==
    /\ pc = "batch"
    /\ Len(batches) >= 2
    /\ Len(batches[Len(batches)]) < batchSize
    /\ batches = splitIntoBatches(items, batchSize)

\* C3 witness of the empty case
C3_WitnessEmpty == pc = "returned" /\ items = <<>> /\ batches = <<>> /\ calls = <<>>

(***************************************************************************)
(* Properties of the helpers of utils (SpecUtil)                           *)
(***************************************************************************)
\* C4: with T = 10,000,000,000, t < T gives toMilliseconds(t) = t * 1000 and
\* toSeconds(t) = t; t >= T (t = T included) gives toSeconds(t) = floor(t / 1000)
\* and toMilliseconds(t) = t.
C4_SameThresholdRule ==
    fn \in {"toMilliseconds", "toSeconds"}
    => LET t == TimestampValue(args[1])
       IN  IF NumLt(t, TenBillion)
           THEN /\ fn = "toMilliseconds" => ret = Times1000(t)
                /\ fn = "toSeconds" => ret = t
           ELSE /\ fn = "toSeconds" => ret = FloorDiv1000(t)
                /\ fn = "toMilliseconds" => ret = t

\* What the code does: the rule of C4 at every t other than T itself.
C4_RuleAwayFromThreshold ==
    (fn \in {"toMilliseconds", "toSeconds"} /\ TimestampValue(args[1]) # TenBillion)
    => LET t == TimestampValue(args[1])
       IN  IF NumLt(t, TenBillion)
           THEN /\ fn = "toMilliseconds" => ret = Times1000(t)
                /\ fn = "toSeconds" => ret = t
           ELSE /\ fn = "toSeconds" => ret = FloorDiv1000(t)
                /\ fn = "toMilliseconds" => ret = t

RECURSIVE CleanedKeepingEmpty(_)
\* the cleaning C6 describes: keys holding undefined, null or '' go, at every
\* level of nested objects; every other key stays, empty objects included
CleanedKeepingEmpty(obj) ==
    LET kept == {k \in Keys(obj) : IsKeptValue(obj.val[k])}
    IN  Obj([k \in kept |-> IF obj.val[k].kind = "object"
                             THEN CleanedKeepingEmpty(obj.val[k])
                             ELSE obj.val[k]])

\* C6: cleanObject removes exactly the keys holding undefined, null or '' at
\* every level of nested objects, and keeps 0, false, empty objects, empty
\* arrays, and arrays as they are.
C6_CleanKeepsEmptyContainers ==
    fn = "cleanObject" => ret = CleanedKeepingEmpty(args[1])

RECURSIVE PrunedOfEmpty(_)
\* drops every key whose object value is, or becomes, empty
PrunedOfEmpty(obj) ==
    LET Sub(k) == PrunedOfEmpty(obj.val[k])
        kept == {k \in Keys(obj) : obj.val[k].kind = "object" => Keys(Sub(k)) # {}}
    IN  Obj([k \in kept |-> IF obj.val[k].kind = "object" THEN Sub(k) ELSE obj.val[k]])

\* What the code does: the cleaning of C6, and then every object left empty goes too.
C6_CleanDropsEmptyObjects ==
    fn = "cleanObject" => ret = PrunedOfEmpty(CleanedKeepingEmpty(args[1]))

(***************************************************************************)
(* Properties of generateInsertId (SpecInsertId)                           *)
(***************************************************************************)
Underscore == "_"

C10_NeverCollides ==
    \A i, j \in 1..Len(idCalls) :
        (i < j /\ idCalls[i].distinctId = idCalls[j].distinctId)
        => idCalls[i].id # idCalls[j].id

(***************************************************************************)
(* Properties of the records on the wire (SpecHandlers)                    *)
(***************************************************************************)
UpdateRequests == {i \in 1..Len(wire) : wire[i].endpoint \in {ENGAGE, GROUPS}}

EventRequests == {i \in 1..Len(wire) : wire[i].endpoint \in {TRACK, IMPORT}}

KeywordsOf(record) == Keys(record) \cap OperationKeywords

\* C5: every profile or group update on the wire carries exactly one operation
\* keyword.
C5_ExactlyOneKeyword ==
    \A i \in UpdateRequests :
        \A j \in 1..Len(wire[i].body) : Cardinality(KeywordsOf(wire[i].body[j])) = 1

\* What the code does: never more than one keyword, and none when the payload is
\* an object that cleanObject leaves empty.
C5_AtMostOneKeyword ==
    \A i \in UpdateRequests :
        \A j \in 1..Len(wire[i].body) : Cardinality(KeywordsOf(wire[i].body[j])) <= 1

\* C7: the token, distinct_id and $insert_id of every shaped event are the
\* token, distinct id and insert id the handler gave it, whatever the caller's
\* property map holds.
C7_IdentityFieldsFixed ==
    hOp \in {"track", "trackBatch", "import"}
    => \A i \in 1..Len(hShaped) :
        /\ Get(hShaped[i].properties, "token") = hShaped[i].token
        /\ Get(hShaped[i].properties, "distinct_id") = hShaped[i].distinctId
        /\ Get(hShaped[i].properties, "$insert_id") = hShaped[i].insertId

RequiredEventKeys == {"token", "distinct_id", "$insert_id", "time"}

\* C8: every event in an ingestion request has the keys token, distinct_id,
\* $insert_id and time.
C8_RequiredKeysPresent ==
    \A i \in EventRequests :
        \A j \in 1..Len(wire[i].body) :
            RequiredEventKeys \subseteq Keys(wire[i].body[j].properties)

(***************************************************************************)
(* Properties of the request functions (SpecTransport)                     *)
(***************************************************************************)
\* the request function has been entered
Entered == tPc \notin {"idle", "ready"}

\* the exchange of the call succeeded at the HTTP level
Answered(request) ==
    /\ Entered /\ tCall.request = request /\ Len(tSent) = 1
    /\ tPc \in {"returned", "thrown"} /\ tReply.status = 200

SameValue(a, b) == a.kind = b.kind /\ a = b

\* C11: getBaseUrl yields a non-empty URL for each of the regions us, eu and
\* in with each API family, service-account requests resolving the URL of the
\* query family, and for every other region string it throws
\* 'Invalid region: <region>', so that no request is issued.
C11_RegionResolved ==
    (Entered /\ (tCall.request = "serviceAccount" => HasServiceAccount(tCall.credentials)))
    => LET region == tCall.credentials.region
           family == IF tCall.request = "serviceAccount" THEN "query" ELSE tCall.request
       IN  IF region \in {"us", "eu", "in"}
           THEN /\ Len(tSent) = 1
                /\ tSent[1].uri.base.kind = "string"
                /\ tSent[1].uri.base.val # ""
                /\ tSent[1].uri.base.val = urls[family][region]
           ELSE /\ tSent = <<>>
                /\ tPc = "thrown"
                /\ tOut = Err("Invalid region: " \o region)

LineAt(text, p) ==
    LET ends == {i \in p..Len(text) : text[i] = "\n"} \cup {Len(text) + 1}
        end == CHOOSE i \in ends : \A j \in ends : i <= j
    IN  [i \in 1..(end - p) |-> text[p + i - 1]]

\* the positions at which the lines of text that are not whitespace-only start
NonBlankStarts(text) ==
    {p \in 1..Len(text) :
        /\ p = 1 \/ text[p - 1] = "\n"
        /\ \E i \in 1..Len(LineAt(text, p)) : LineAt(text, p)[i] # " "}

\* the characters of a line other than blanks
Inked(line) == SelectSeq(line, LAMBDA c : c # " ")

\* the k-th smallest element of a set of numbers
Nth(S, k) == CHOOSE p \in S : Cardinality({q \in S : q < p}) = k - 1

\* C13: a string body of an export response is split on line feeds, its
\* whitespace-only lines are dropped and every other line is parsed as one
\* JSON value, giving one record per remaining line in the order of the lines;
\* when a line does not parse the call throws and yields no record.  An array
\* body is returned unchanged, an object body as a one-element sequence.
C13_ExportRecords ==
    Answered("export")
    => LET body == tReply.body
           starts == NonBlankStarts(body.val)
       IN  CASE body.kind = "string" ->
                  IF \A p \in starts : Inked(LineAt(body.val, p)) \in {<<"a">>, <<"b">>}
                  THEN /\ tPc = "returned" /\ tOut.ok /\ tOut.value.kind = "array"
                       /\ Len(tOut.value.val) = Cardinality(starts)
                       /\ \A k \in 1..Cardinality(starts) :
                            tOut.value.val[k] =
                                JsonTexts[Inked(LineAt(body.val, Nth(starts, k)))[1]]
                  ELSE tPc = "thrown" /\ ~tOut.ok /\ tOut.value = Undefined
             [] body.kind = "array" -> tPc = "returned" /\ tOut = Ok(body)
             [] OTHER -> tPc = "returned" /\ tOut = Ok(Arr(<<body>>))

C13_Witness ==
    /\ Answered("export")
    /\ tReply.body = Str(<<"b", "\n", " ", "a">>)
    /\ tOut = Ok(Arr(<<JsonTexts["b"], JsonTexts["a"]>>))

C13_WitnessBlankLine ==
    /\ Answered("export")
    /\ tReply.body = Str(<<"b", "\n", "\n", "a">>)
    /\ Len(tOut.value.val) = 2

C13_WitnessParseFailure ==
    /\ Answered("export")
    /\ tReply.body = Str(<<"a", "\n", "x">>)
    /\ tPc = "thrown"

\* C19: a service-account call whose credentials lack a non-empty username or
\* a non-empty secret issues no request and throws the configuration error,
\* for every method and endpoint.
C19_NoRequestWithoutServiceAccount ==
    (/\ Entered /\ tCall.request = "serviceAccount"
     /\ \/ tCall.credentials.serviceAccountUsername \in {Undefined, Str(<<>>)}
        \/ tCall.credentials.serviceAccountSecret \in {Undefined, Str(<<>>)})
    => /\ tSent = <<>>
       /\ tPc = "thrown"
       /\ tOut = Err("Service account credentials are required for this operation. "
                   \o "Please configure them in your Mixpanel credentials.")

C19_Witness ==
    /\ Entered /\ tCall.request = "serviceAccount" /\ tCall.method = "POST"
    /\ tCall.credentials.serviceAccountUsername = Str(<<"u">>)
    /\ tCall.credentials.serviceAccountSecret = Str(<<>>)
    /\ tCall.credentials.region = "eu"
    /\ tPc = "thrown"

\* the text a request's Authorization header encodes, empty without the header
AuthorizationText(options) ==
    IF "Authorization" \in DOMAIN options.headers
    THEN options.headers["Authorization"].credentials.base64
    ELSE <<>>

\* the user and the password a Basic credential text denotes: it is cut at its first colon
BasicPair(text) ==
    LET colon == CHOOSE i \in 1..Len(text) : text[i] = ":" /\ \A j \in 1..(i - 1) : text[j] # ":"
    IN  <<SubSeq(text, 1, colon - 1), SubSeq(text, colon + 1, Len(text))>>

\* part occurs in text
Contains(text, part) ==
    \E i \in 0..(Len(text) - Len(part)) : SubSeq(text, i + 1, i + Len(part)) = part

\* C20: a request carries the credentials of its family and no other:
\* ingestion requests have no Authorization header; query and export requests
\* use Basic authentication with the project secret as user and an empty
\* password; service-account requests use the service-account username and
\* secret.  The service-account secret is in no ingestion, query or export
\* request and the project secret in no ingestion or service-account request.
C20_CredentialsOfFamily ==
    (Entered /\ Len(tSent) = 1)
    => LET options == tSent[1]
           credentials == tCall.credentials
           text == AuthorizationText(options)
       IN  /\ Len(tSent) = 1
           /\ tCall.request = "ingestion" =>
                /\ "Authorization" \notin DOMAIN options.headers
                /\ options.body = tCall.body
           /\ tCall.request \in {"query", "export"} =>
                /\ options.headers["Authorization"].scheme = "Basic"
                /\ BasicPair(text) = <<credentials.projectSecret.val, <<>>>>
           /\ tCall.request = "serviceAccount" =>
                /\ options.headers["Authorization"].scheme = "Basic"
                /\ BasicPair(text) = <<credentials.serviceAccountUsername.val,
                                       credentials.serviceAccountSecret.val>>
                /\ ~Contains(text, credentials.projectSecret.val)
           /\ (tCall.request # "serviceAccount" /\ Truthy(credentials.serviceAccountSecret)) =>
                ~Contains(text, credentials.serviceAccountSecret.val)
           /\ tCall.request = "ingestion" => ~Contains(text, credentials.projectSecret.val)

C20_Witness ==
    /\ Entered /\ tCall.request = "export" /\ Len(tSent) = 1
    /\ Truthy(tCall.credentials.serviceAccountSecret)
    /\ BasicPair(AuthorizationText(tSent[1])) = <<<<"p", "s">>, <<>>>>

C20_WitnessServiceAccount ==
    /\ Entered /\ tCall.request = "serviceAccount" /\ Len(tSent) = 1
    /\ BasicPair(AuthorizationText(tSent[1])) = <<<<"u">>, <<"k", "y">>>>

(***************************************************************************)
(* Properties of batch dispatch (SpecHandlers, SpecDispatch)               *)
(***************************************************************************)
\* the most records one ingestion request may carry
MaxRecordsPerRequest == 2000

\* the bulk operations of the event resource
BulkOperations == {"trackBatch", "import"}

\* the reply fails the request: the exchange was rejected, or its body is 0
FailedReply(reply) == reply.status # 200 \/ ~IngestionResult(reply.body).ok

\* C14: in trackBatch and import a chunk whose request is answered with HTTP
\* status 429 goes through the retry policy: the operation does not fail
\* before the chunk has been dispatched again.
C14_RateLimitedChunkRetried ==
    (/\ hOp \in BulkOperations /\ hPc = "failed" /\ hReplies # <<>>
     /\ hReplies[Len(hReplies)].status = RateLimited)
    => Cardinality({i \in 1..Len(wire) : wire[i].body = hBatches[hIdx]}) > 1

\* C15: the batches of one operation are dispatched strictly one after the
\* other: at most one request is in flight, a batch is retried only after the
\* backoff sleep that follows its rate-limited attempt, and the first request
\* of the next batch is issued only after the previous batch has succeeded.
C15_BatchesSequential ==
    /\ \A j \in 1..Len(calls) : calls[j].outcome = -1 => (j = Len(calls) /\ pc = "await")
    /\ \A j \in 2..Len(calls) :
         IF calls[j].batch = calls[j - 1].batch
         THEN /\ calls[j].attempt = calls[j - 1].attempt + 1
              /\ calls[j - 1].outcome = RateLimited
              /\ \E k \in 1..Len(sleeps) : sleeps[k].afterCall = j - 1
         ELSE /\ calls[j].batch = calls[j - 1].batch + 1
              /\ calls[j].attempt = 0
              /\ calls[j - 1].outcome = 200
    /\ pc = "sleep" => (calls # <<>> /\ sleeps[Len(sleeps)].afterCall = Len(calls))
    /\ Len(wire) - Len(hReplies) = (IF hPc = "awaiting" THEN 1 ELSE 0)
    /\ \A i \in 1..Len(wire) : wire[i].body = hBatches[i]
    /\ \A i \in 1..Len(hReplies) : i < Len(wire) => ~FailedReply(hReplies[i])

C15_Witness ==
    /\ Len(calls) >= 3
    /\ calls[1].batch = 1 /\ calls[1].outcome = RateLimited
    /\ calls[2].batch = 1 /\ calls[2].outcome = 200
    /\ calls[3].batch = 2

C15_WitnessHandler ==
    hOp = "import" /\ hPc = "done" /\ Len(hBatches) = 3 /\ Len(wire) = 3

\* the call ends its batch in a fatal error: it was rejected without rate
\* limiting, or it was the last allowed attempt and was rate limited
FatalCall(call) ==
    \/ call.outcome \notin {-1, 200, RateLimited}
    \/ call.outcome = RateLimited /\ call.attempt = retryAttempts - 1

\* C16: when a batch ends in a fatal error (a rejection other than rate
\* limiting, or rate limiting on every allowed attempt) no later batch is
\* dispatched, the operation ends with that error, and the batches before it
\* each keep their one successful request.
C16_FatalErrorStopsDispatch ==
    /\ \A j \in 1..Len(calls) :
         FatalCall(calls[j]) =>
           /\ j = Len(calls)
           /\ batchIdx = calls[j].batch
           /\ lastError = [statusCode |-> calls[j].outcome, call |-> j]
           /\ pc \in {"sleep", "attempt", "check", "thrown"}
           /\ calls[j].outcome # RateLimited => pc = "thrown"
           /\ pc = "thrown" => thrown = lastError
           /\ \A b \in 1..(calls[j].batch - 1) :
                Cardinality({i \in 1..j : calls[i].batch = b /\ calls[i].outcome = 200}) = 1
    /\ pc = "thrown" => (calls # <<>> /\ FatalCall(calls[Len(calls)]))
    /\ \A i \in 1..Len(hReplies) :
         FailedReply(hReplies[i]) =>
           /\ i = Len(hReplies) /\ i = Len(wire)
           /\ hPc = "failed" /\ hErr # ""
           /\ hResults = [k \in 1..(i - 1) |-> hResults[k]]
           /\ \A k \in 1..i : wire[k].body = hBatches[k]

C16_Witness ==
    /\ pc = "thrown" /\ thrown.statusCode = RateLimited
    /\ batchIdx = 2 /\ Len(batches) = 3 /\ retryAttempts = 2

C16_WitnessHandler ==
    /\ hOp = "trackBatch" /\ hPc = "failed" /\ Len(hBatches) = 3 /\ Len(wire) = 2
    /\ hReplies[2].status = 500

\* the events parameter as a list, when it is the JSON text of a list
EventsOf(input) == input.events.val.val

\* the event has no event name, no distinct id or, for import, no time
InvalidEvent(op, eventData) ==
    \/ ~Has(eventData, "event") /\ ~Has(eventData, "eventName")
    \/ ~Has(eventData, "distinct_id") /\ ~Has(eventData, "distinctId")
    \/ op = "import" /\ ~Has(eventData, "time")

\* the parameters of the operation fail its validation
InvalidInput(op, input) ==
    IF op = "track"
    THEN \/ input.properties = Malformed
         \/ input.eventName = Str(<<>>)
         \/ input.distinctId = Str(<<>>)
    ELSE \/ input.events = Malformed
         \/ /\ input.events.val.kind = "array"
            /\ \E i \in 1..Len(EventsOf(input)) : InvalidEvent(op, EventsOf(input)[i])

\* C17: in track, trackBatch and import an input that fails validation
\* (malformed JSON, an event without an event name or without a distinct id,
\* an imported event without a time) is detected before any request: the
\* operation fails and no ingestion request is made, whatever the position of
\* the invalid event.
C17_InvalidInputSendsNothing ==
    (hOp \in {"track"} \cup BulkOperations /\ InvalidInput(hOp, hInput))
    => (hPc = "failed" /\ wire = <<>> /\ hReplies = <<>>)

\* the bulk operations validate every event before the first request
C17_BulkInputValidatedFirst ==
    (hOp \in BulkOperations /\ InvalidInput(hOp, hInput))
    => (hPc = "failed" /\ wire = <<>> /\ hReplies = <<>>)

\* the records posted so far, in dispatch order
RecordsSent == Concat([i \in 1..Len(wire) |-> wire[i].body])

\* C18: every ingestion request of trackBatch and import carries between 1
\* and 2000 events, and the request bodies in dispatch order concatenate to
\* the shaped events in the order of the input: to a prefix of them while the
\* operation runs, to all of them when it is done.
C18_RequestsPartitionEvents ==
    (hOp \in BulkOperations /\ (wire # <<>> \/ hPc = "done"))
    => /\ \A i \in 1..Len(wire) : Len(wire[i].body) \in 1..MaxRecordsPerRequest
       /\ Len(hShaped) = Len(EventsOf(hInput))
       /\ Len(RecordsSent) <= Len(hShaped)
       /\ \A g \in 1..Len(RecordsSent) :
            /\ RecordsSent[g] = WireEvent(hShaped[g])
            /\ (Has(EventsOf(hInput)[g], "time") /\ ~Has(EventsOf(hInput)[g], "properties")
                /\ Truthy(Get(EventsOf(hInput)[g], "time")))
               => Get(RecordsSent[g].properties, "time")
                      = Num(toSeconds(Get(EventsOf(hInput)[g], "time")))
       /\ hPc = "done" => Len(RecordsSent) = Len(hShaped)

C18_Witness ==
    /\ hOp = "trackBatch" /\ hPc = "done" /\ Len(wire) = 3
    /\ Len(wire[1].body) = MaxRecordsPerRequest /\ Len(wire[3].body) = 1
    /\ Get(wire[2].body[1].properties, "time") = Num(N(1700, MaxRecordsPerRequest + 1))

(***************************************************************************)
(* Properties of the errors the request functions surface                  *)
(***************************************************************************)
\* the HTTP exchange of the call was rejected with the given status
Rejected(status) ==
    Entered /\ Len(tSent) = 1 /\ tPc = "thrown" /\ tReply.status = status

\* C21: a call of a request function whose exchange fails with HTTP 429 throws an
\* error that processBatchWithRetry classifies as rate-limited, and an exchange
\* failing with any other status throws an error it classifies as fatal
C21_RateLimitSurfacesRetryable ==
    \A status \in StatusCodes :
        Rejected(status) =>
            (("statusCode" \in DOMAIN tThrown /\ IsRateLimitError(tThrown))
                <=> status = RateLimited)

\* C22: an ingestion reply whose body is a string or a number other than 1, '1', 0
\* and '0' makes mixpanelIngestionApiRequest throw
C22_UnrecognisedBodyThrows ==
    (/\ Answered("ingestion")
     /\ tReply.body.kind \in {"string", "number"}
     /\ tReply.body \notin {Num(N(0, 1)), Str(<<"1">>), Num(N(0, 0)), Str(<<"0">>)})
        => tPc = "thrown" /\ ~tOut.ok

(***************************************************************************)
(* Properties of the attempt loop of processBatchWithRetry                 *)
(***************************************************************************)
\* C23: the processor is invoked at most retryAttempts times for a batch, with the
\* attempts numbered from 0 in order, never again for a batch after a call of it
\* succeeded, and the sleep that follows the failed attempt i lasts
\* DEFAULTS.RETRY_DELAY_MS * 2^i
C23_BoundedAttemptsAndBackoff ==
    /\ \A b \in 1..Len(batches) :
        /\ Cardinality(CallsOfBatch(b)) <= retryAttempts
        /\ \A j \in CallsOfBatch(b) :
            calls[j].attempt = Cardinality({k \in CallsOfBatch(b) : k < j})
    /\ \A j \in 1..Len(calls) : \A k \in 1..Len(calls) :
        (j < k /\ calls[j].outcome = 200) => calls[k].batch > calls[j].batch
    /\ \A k \in 1..Len(sleeps) :
        LET call == calls[sleeps[k].afterCall]
        IN  /\ call.outcome \notin {-1, 200}
            /\ sleeps[k].delay = RETRY_DELAY_MS * 2^call.attempt

\* two batches: the first succeeds at its last permitted attempt after the sleeps
\* b and 2b, the second at once
C23_Witness ==
    /\ pc = "returned" /\ retryAttempts = 3 /\ Len(batches) = 2
    /\ Cardinality(CallsOfBatch(1)) = retryAttempts
    /\ Cardinality(CallsOfBatch(2)) = 1
    /\ SleepDelays = <<RETRY_DELAY_MS, 2 * RETRY_DELAY_MS>>

\* every attempt permitted for a batch was rate-limited: three sleeps
C23_WitnessExhausted ==
    /\ pc = "thrown" /\ retryAttempts = 3
    /\ SleepDelays = <<RETRY_DELAY_MS, 2 * RETRY_DELAY_MS, 4 * RETRY_DELAY_MS>>

\* C28: whenever processBatchWithRetry returns normally, whatever retryAttempts
\* (0 included) and whatever the processor's failures, results holds exactly one
\* entry for each batch, in batch order, each pushed by a call that succeeded
C28_ReturnCoversEveryBatch ==
    pc = "returned" =>
        /\ Len(results) = Len(batches)
        /\ \A k \in 1..Len(results) :
            /\ results[k].batch = k
            /\ calls[results[k].call].batch = k
            /\ calls[results[k].call].outcome = 200

(***************************************************************************)
(* Properties of the errors the batch loops deliver                        *)
(***************************************************************************)
\* the message of the error a request function throws for a failed reply
UpstreamMessage(reply) ==
    IF reply.status # 200 THEN RequestError(reply.status).message
    ELSE IngestionResult(reply.body).message

\* C24: when the dispatch of a batch fails in processBatchWithRetry, trackBatch or
\* import, the error delivered names the index of the failing batch together with
\* the upstream message: it is more than the upstream error handed on unchanged
C24_ErrorNamesFailingBatch ==
    /\ pc = "thrown" =>
        thrown # [statusCode |-> calls[Len(calls)].outcome, call |-> Len(calls)]
    /\ (/\ hOp \in BulkOperations /\ hPc = "failed" /\ hReplies # <<>>
        /\ FailedReply(hReplies[Len(hReplies)]))
        => hErr # UpstreamMessage(hReplies[Len(hReplies)])

(***************************************************************************)
(* Properties of the event properties                                      *)
(***************************************************************************)
\* C25: buildEventProperties sets time to toSeconds(options.time) when a time
\* option is given; otherwise a time of the property map is kept, and only without
\* one is time the current time in whole seconds; ip is present exactly when the
\* ip option is supplied
C25_TimeAndIp ==
    fn = "buildEventProperties" =>
        LET additionalProperties == args[4]
            options == args[5]
            given == Truthy(Get(options, "time"))
        IN  /\ given => Get(ret, "time") = Num(toSeconds(Get(options, "time")))
            /\ (~given /\ Truthy(Get(additionalProperties, "time")))
                  => Get(ret, "time") = Get(additionalProperties, "time")
            /\ (~given /\ ~Has(additionalProperties, "time"))
                  => Get(ret, "time") = Num(NowSeconds(args[6]))
            /\ Has(ret, "ip") <=> Truthy(Get(options, "ip"))

\* C30: for the same token, event name, distinct id, insert id, caller time and
\* property map, trackEvent and trackBatchEvents shape the same record
C30_TrackShapesAgree ==
    fn = "shapeEvent" => ret.track = ret.batch

(***************************************************************************)
(* Properties of the records returned for a paginated response             *)
(***************************************************************************)
\* C26: for a paginated response of the people export or of the cohort members,
\* one output record is returned for each element of the collection, carrying the
\* element's own fields and, as top-level fields next to them, the page number, the
\* session id and the total count of the response
C26_PaginatedRecordsFlattened ==
    (/\ fn \in {"exportPeople", "getCohortMembers"}
     /\ Has(args[1], "results"))
    => LET response == args[1]
           elements == Get(response, "results").val
       IN  /\ Len(ret) = Len(elements)
           /\ \A i \in 1..Len(elements) :
               /\ \A k \in Keys(elements[i]) : Get(ret[i].json, k) = elements[i].val[k]
               /\ \A k \in {"page", "session_id", "total"} :
                    Get(ret[i].json, k) = Get(response, k)

(***************************************************************************)
(* Properties of Mixpanel.execute                                          *)
(***************************************************************************)
\* the outcomes of the items an invocation has handled, in the order handled
Outcomes(invocation) == [h \in 1..Len(invocation.handled) |-> invocation.handled[h].ok]

\* C27: licenseNoticeLogged is false until execute is first entered and true from
\* then on (every later call finds it true), the notice is written exactly once,
\* and two calls that differ in the flag they found on entry but agree in their
\* items, their continueOnFail setting and the outcomes of the items handled have
\* dispatched the same items in the same order and stand at the same point
C27_NoticeOnceAndNoGating ==
    /\ licenseNoticeLogged <=> invocations # <<>>
    /\ warned = IF invocations = <<>> THEN 0 ELSE 1
    /\ \A k \in 1..Len(invocations) : invocations[k].flagOnEntry <=> k > 1
    /\ \A j \in 1..Len(invocations) : \A k \in 1..Len(invocations) :
        LET a == invocations[j]
            b == invocations[k]
        IN  (/\ a.flagOnEntry # b.flagOnEntry
             /\ a.length = b.length /\ a.continueOnFail = b.continueOnFail
             /\ Outcomes(a) = Outcomes(b))
            => a.handled = b.handled /\ a.i = b.i /\ a.status = b.status

\* a second call, entered with the flag set, has handled the same two items with
\* the same outcomes as the first
C27_Witness ==
    /\ Len(invocations) = 2 /\ ePc = "ready" /\ warned = 1
    /\ ~invocations[1].flagOnEntry /\ invocations[2].flagOnEntry
    /\ invocations[1].length = 2 /\ invocations[2].length = 2
    /\ invocations[1].continueOnFail /\ invocations[2].continueOnFail
    /\ Outcomes(invocations[1]) = <<FALSE, TRUE>>
    /\ Outcomes(invocations[2]) = <<FALSE, TRUE>>

\* the records of returnData that report an error
ErrorRecords(invocation) ==
    SelectSeq(invocation.returnData, LAMBDA record : Has(record.json, "error"))

\* the entries of handled whose handler threw
Failures(invocation) == SelectSeq(invocation.handled, LAMBDA entry : ~entry.ok)

\* C29: the items of a call are handled in index order, each at most once. With
\* continueOnFail every failure at item i has left exactly one record {error:
\* message} paired to item i, execute never throws, and it returns once every item
\* has been handled. Without it the first failure is the last item handled:
\* execute throws that error and returns no output.
C29_ContinueOnFail ==
    \A k \in 1..Len(invocations) :
        LET invocation == invocations[k]
            handled == invocation.handled
        IN  /\ \A h \in 1..Len(handled) : handled[h].item = h - 1
            /\ Len(handled) <= invocation.length
            /\ invocation.status = "returned" => Len(handled) = invocation.length
            /\ invocation.status = "running" => Len(handled) < invocation.length
            /\ IF invocation.continueOnFail
               THEN /\ invocation.status # "thrown"
                    /\ Len(ErrorRecords(invocation)) = Len(Failures(invocation))
                    /\ \A e \in 1..Len(Failures(invocation)) :
                        ErrorRecords(invocation)[e] =
                            [json |-> Obj("error" :> RequestError(0).message),
                             pairedItem |-> [item |-> Failures(invocation)[e].item]]
               ELSE /\ ErrorRecords(invocation) = <<>>
                    /\ Len(Failures(invocation)) <= 1
                    /\ Failures(invocation) # <<>> <=> invocation.status = "thrown"
                    /\ invocation.status = "thrown" =>
                        /\ ~handled[Len(handled)].ok
                        /\ invocation.message = RequestError(0).message

\* with continueOnFail the first of two items failed and the second was handled
C29_Witness ==
    \E k \in 1..Len(invocations) :
        /\ invocations[k].continueOnFail /\ invocations[k].status = "returned"
        /\ Outcomes(invocations[k]) = <<FALSE, TRUE>>
        /\ Len(invocations[k].returnData) >= 2

\* without continueOnFail the first of two items failed: the second is never handled
C29_WitnessAbort ==
    \E k \in 1..Len(invocations) :
        /\ ~invocations[k].continueOnFail /\ invocations[k].status = "thrown"
        /\ invocations[k].length = 2 /\ Outcomes(invocations[k]) = <<FALSE>>
        /\ k < Len(invocations)

====
